---- MODULE Spec2Model ----
(***************************************************************************)
(* Stable-study ingestion of orthanc.routes: the in-memory job queue       *)
(* (StableStudyQueue), the pipeline processStableStudy it drives, and the  *)
(* stores the pipeline reads and writes.                                   *)
(*                                                                         *)
(* JavaScript runs one callback at a time: the code between two awaits is  *)
(* one atomic step.  Every action below is such a step: it starts where a  *)
(* suspended async function resumes (the awaited call's reply arrives) and *)
(* runs to the next await of that function, calls included.                *)
(***************************************************************************)
EXTENDS Integers, Sequences, FiniteSets, TLC

VARIABLES
    jobs,          \* this.jobs: Map id -> job, in insertion order (ids are 1..Len)
    processing,    \* this.processing: Set of job ids
    nextJobId,     \* this.nextJobId
    isProcessing,  \* this.isProcessing
    sleepers,      \* startProcessing activations suspended at the 100 ms sleep
    run,           \* per job: where its processStableStudy is suspended, and its locals
    archive,       \* the imaging archive: how far study "X" has been received
    patients,      \* Patient collection
    labs,          \* Lab collection
    studies,       \* DicomStudy collection
    cache          \* redis: job:result:<requestId> -> cached outcome

queueVars == <<jobs, processing, nextJobId, isProcessing, sleepers>>
storeVars == <<patients, labs, studies, cache>>
vars == <<jobs, processing, nextJobId, isProcessing, sleepers,
          run, archive, patients, labs, studies, cache>>

\* null, for the fields of a job that hold a string or null
Null == "null"

\* this.concurrency
concurrency == 10

\* Jobs enqueued in Spec.
MaxJobs == 2

\* Longest person name or facility name the archive reports in TagsSpec,
\* the named ones apart.
MaxChars == 4
\* Jobs enqueued, one after the other, in SeqSpec.
MaxIngestions == 3
\* Jobs enqueued in the queue-only specification (a burst above the ceiling).
MaxBurst == 12
\* The job of that burst whose study the archive does not know.
BadJobId == 3

-----------------------------------------------------------------------------
(* Tag values and the strings made of them are sequences of tokens.  A     *)
(* string the code takes apart (a person name, a facility name, a lab      *)
(* reference) has one token per character; a string it only copies and     *)
(* compares is a single token.  <<>> is the empty string and Undefined the *)
(* value of a missing property.                                            *)

Undefined == <<"undefined">>

\* JavaScript truthiness of a string-or-undefined value.
truthy(v) == v # Undefined /\ v # <<>>

isSpace(c) == c = " "

RECURSIVE trimLeft(_)
trimLeft(s) == IF s # <<>> /\ isSpace(Head(s)) THEN trimLeft(Tail(s)) ELSE s

RECURSIVE trimRight(_)
trimRight(s) ==
    IF s # <<>> /\ isSpace(s[Len(s)]) THEN trimRight(SubSeq(s, 1, Len(s) - 1)) ELSE s

\* String.prototype.trim
trim(s) == trimRight(trimLeft(s))

\* String.prototype.includes for a single character
includes(s, c) == \E i \in 1..Len(s) : s[i] = c

\* String.prototype.split(sep): the sequence of parts between separators.
RECURSIVE splitFrom(_, _, _)
splitFrom(s, sep, cur) ==
    IF s = <<>> THEN <<cur>>
    ELSE IF Head(s) = sep THEN <<cur>> \o splitFrom(Tail(s), sep, <<>>)
    ELSE splitFrom(Tail(s), sep, Append(cur, Head(s)))

split(s, sep) == splitFrom(s, sep, <<>>)

\* Array.prototype.join(sep)
RECURSIVE join(_, _)
join(parts, sep) ==
    IF parts = <<>> THEN <<>>
    ELSE IF Len(parts) = 1 THEN parts[1]
    ELSE parts[1] \o <<sep>> \o join(Tail(parts), sep)

\* A lookup that misses the last part.
partBeforeLast(parts, i) == IF i < Len(parts) THEN parts[i] ELSE <<>>

\* parts[i] || ''
partOr(parts, i) == IF i <= Len(parts) THEN parts[i] ELSE <<>>

\* String.prototype.toUpperCase, on the letters the archive's strings use.
upperChar(c) ==
    CASE c = "a" -> "A" [] c = "b" -> "B" [] c = "c" -> "C"
      [] c = "l" -> "L" [] OTHER -> c

toUpperCase(s) == [i \in 1..Len(s) |-> upperChar(s[i])]

\* s.replace(/_/g, ' ')
RECURSIVE underscoresToSpaces(_)
underscoresToSpaces(s) ==
    IF s = <<>> THEN <<>>
    ELSE <<IF Head(s) = "_" THEN " " ELSE Head(s)>> \o underscoresToSpaces(Tail(s))

\* s.replace(/\s+/g, c): every run of whitespace becomes one c.
RECURSIVE replaceSpaceRuns(_, _)
replaceSpaceRuns(s, c) ==
    IF s = <<>> THEN <<>>
    ELSE IF isSpace(Head(s))
         THEN <<c>> \o replaceSpaceRuns(trimLeft(s), c)
         ELSE <<Head(s)>> \o replaceSpaceRuns(Tail(s), c)

\* Tag sets are functions from the tag names present to their values.
NoTags == [k \in {} |-> Undefined]

Tag(t, k) == IF k \in DOMAIN t THEN t[k] ELSE Undefined

\* { ...a, ...b }
spread(a, b) ==
    [k \in DOMAIN a \cup DOMAIN b |-> IF k \in DOMAIN b THEN b[k] ELSE a[k]]

\* parsed is the function's body, applied to the value of its argument.
processDicomPersonName(dicomNameField) ==
    LET parsed[name \in {dicomNameField}] ==
        IF ~truthy(name)
        THEN [fullName |-> <<"Unknown Patient">>, firstName |-> <<>>,
              lastName |-> <<"Unknown">>,
              originalDicomFormat |-> IF truthy(name) THEN name ELSE <<>>,
              formattedForDisplay |-> <<"Unknown Patient">>]
        ELSE
        LET nameString == trim(name) IN
        IF nameString \in {<<>>, <<"^">>, <<"^", "^", "^">>}
        THEN [fullName |-> <<"Anonymous Patient">>, firstName |-> <<>>,
              lastName |-> <<"Anonymous">>,
              originalDicomFormat |-> nameString,
              formattedForDisplay |-> <<"Anonymous Patient">>]
        ELSE
        LET parts      == split(nameString, "^")
            familyName == trim(partOr(parts, 1))
            givenName  == trim(partOr(parts, 2))
            middleName == trim(partOr(parts, 3))
            namePrefix == trim(partOr(parts, 4))
            nameSuffix == trim(partOr(parts, 5))
            nameParts  == SelectSeq(<<namePrefix, givenName, middleName, familyName, nameSuffix>>,
                                    LAMBDA p : p # <<>>)
            displayName == IF Len(nameParts) > 0 THEN join(nameParts, " ")
                           ELSE <<"Unknown Patient">>
        IN  [fullName |-> displayName, firstName |-> givenName,
             lastName |-> familyName,
             originalDicomFormat |-> nameString,
             formattedForDisplay |-> displayName]
    IN  parsed[dicomNameField]

-----------------------------------------------------------------------------
(* The imaging archive (Orthanc), as the pipeline sees it through axios.   *)
(* Study "X" arrives in two parts: after the second part it has a second   *)
(* series (an ultrasound) and a second instance.  Study "Z" lists no       *)
(* instance; its only series answers under /instances/ as well.  Study     *)
(* "N" has a summary without StudyInstanceUID; "BAD" is unknown (404).     *)
(* Studies "U", "D" and "I" have one series with one instance each: the    *)
(* instance of "U" names no patient, that of "D" carries a lab reference   *)
(* no Lab has, and that of "I" carries the ObjectId of the Lab with _id 1. *)

StudyIds == {"X", "Z", "N", "BAD"}

\* Does GET /studies/{id} answer at all?
archiveHasStudy(sid) == sid \in {"X", "Z", "N", "U", "D", "I"}

\* GET /studies/{id}: Series and MainDicomTags of the reply.
archiveStudy(sid, v) ==
    CASE sid = "X" ->
            [Series |-> IF v = 1 THEN <<"s1">> ELSE <<"s1", "s2">>,
             MainDicomTags |-> [k \in {"StudyInstanceUID", "InstitutionName"} |->
                 IF k = "StudyInstanceUID" THEN <<"uidX">> ELSE <<"l", "a", "b">>]]
      [] sid = "Z" ->
            [Series |-> <<"s3">>,
             MainDicomTags |-> [k \in {"StudyInstanceUID"} |-> <<"uidZ">>]]
      [] sid = "U" ->
            [Series |-> <<"s4">>,
             MainDicomTags |-> [k \in {"StudyInstanceUID"} |-> <<"uidU">>]]
      [] sid = "D" ->
            [Series |-> <<"s5">>,
             MainDicomTags |-> [k \in {"StudyInstanceUID"} |-> <<"uidD">>]]
      [] sid = "I" ->
            [Series |-> <<"s6">>,
             MainDicomTags |-> [k \in {"StudyInstanceUID"} |-> <<"uidI">>]]
      [] OTHER ->
            [Series |-> <<>>, MainDicomTags |-> NoTags]

\* GET /studies/{id}/instances
archiveInstances(sid, v) ==
    CASE sid = "X" -> IF v = 1 THEN <<"i1">> ELSE <<"i1", "i2">>
      [] sid = "U" -> <<"i4">>
      [] sid = "D" -> <<"i5">>
      [] sid = "I" -> <<"i6">>
      [] OTHER     -> <<>>

\* GET /series/{id}
archiveSeriesInfo(seriesId) ==
    CASE seriesId = "s1" ->
            [Instances |-> <<"i1">>, MainDicomTags |-> [k \in {"Modality"} |-> <<"CT">>]]
      [] seriesId = "s2" ->
            [Instances |-> <<"i2">>, MainDicomTags |-> [k \in {"Modality"} |-> <<"US">>]]
      [] seriesId = "s4" ->
            [Instances |-> <<"i4">>, MainDicomTags |-> [k \in {"Modality"} |-> <<"MR">>]]
      [] seriesId = "s5" ->
            [Instances |-> <<"i5">>, MainDicomTags |-> [k \in {"Modality"} |-> <<"MR">>]]
      [] seriesId = "s6" ->
            [Instances |-> <<"i6">>, MainDicomTags |-> [k \in {"Modality"} |-> <<"MR">>]]
      [] OTHER ->
            [Instances |-> <<>>, MainDicomTags |-> NoTags]

\* GET /instances/{id}: does the id name an instance?
archiveIsInstance(id) == id \in {"i1", "i2", "s3", "i4", "i5", "i6"}

\* GET /instances/{id}/simplified-tags
archiveTags(id) ==
    CASE id \in {"i1", "i2"} ->
            [k \in {"PatientID", "PatientName", "Modality", "InstitutionName"} |->
                CASE k = "PatientID" -> <<"P1">>
                  [] k = "PatientName" -> <<"D", "^", "J">>
                  [] k = "Modality" -> <<"CT">>
                  [] OTHER -> <<"l", "a", "b">>]
      [] id = "i4" -> [k \in {"Modality"} |-> <<"MR">>]
      [] id = "i5" ->
            [k \in {"PatientID", "PatientBirthDate", "0011,1010"} |->
                CASE k = "PatientID" -> <<"P3">>
                  [] k = "PatientBirthDate" -> <<"1", "9", "8", "0", "0", "1", "0", "2">>
                  [] OTHER -> <<"c", "c">>]
      [] id = "i6" ->
            [k \in {"PatientID", "PatientName", "0011,1010"} |->
                CASE k = "PatientID" -> <<"P3">>
                  [] k = "PatientName" -> <<"K", "^", "M">>
                  [] OTHER -> <<"oid", "1">>]
      [] OTHER -> [k \in {"PatientID"} |-> <<"P2">>]

-----------------------------------------------------------------------------
(* StableStudyQueue *)

\* A job object that is built already admitted.
newJobActive(jobId, jobData) ==
    [id |-> jobId, data |-> jobData, status |-> "active",
     progress |-> 0, result |-> Null, error |-> Null]

\* add(): the job object built before it is stored.
newJob(jobId, jobData) ==
    [id |-> jobId, data |-> jobData, status |-> "waiting",
     progress |-> 0, result |-> Null, error |-> Null]

\* A filter that also lets failed jobs through.
getWaitingOrFailedJobs(js) ==
    SelectSeq(js, LAMBDA job : job.status \in {"waiting", "failed"})

getWaitingJobs(js) == SelectSeq(js, LAMBDA job : job.status = "waiting")

\* A loop that only looks at the waiting jobs.
loopWhileWaiting(js, proc) == Len(getWaitingJobs(js)) > 0

\* The outer loop condition of startProcessing.
loopCondition(js, proc) == Len(getWaitingJobs(js)) > 0 \/ Cardinality(proc) > 0

\* An admission test that is off by one.
admissionOpenInclusive(js, proc) ==
    Cardinality(proc) <= concurrency /\ Len(getWaitingJobs(js)) > 0

\* An admission loop that never runs.
admissionNever(js, proc) == FALSE

\* The inner (admission) loop condition of startProcessing.
admissionOpen(js, proc) ==
    Cardinality(proc) < concurrency /\ Len(getWaitingJobs(js)) > 0

\* An admission that takes the newest waiting job.
pickNewestJob(js) == getWaitingJobs(js)[Len(getWaitingJobs(js))]

\* The job the admission loop hands to processJob.
pickJob(js) == getWaitingJobs(js)[1]

\* processJob up to its first suspension: the slot is taken, the job is
\* active, and processStableStudy has run to its first await (progress 10).
processJobBegin(js, id) ==
    [js EXCEPT ![id].status = "active", ![id].progress = 10]

\* The admission loop: processJob is called without await, so the loop runs
\* to its end in one step.
\* pass is one pass of the loop, applied to the queue state it starts from.
RECURSIVE admit(_, _)
admit(js, proc) ==
    LET pass[q \in {[jobs |-> js, processing |-> proc]}] ==
            IF admissionOpen(q.jobs, q.processing)
            THEN LET job == pickJob(q.jobs)
                 IN  admit(processJobBegin(q.jobs, job.id), q.processing \cup {job.id})
            ELSE q
    IN  pass[[jobs |-> js, processing |-> proc]]

\* processJob whose slot is released only after the try block.
processJobEndNoFinally(q, id, ok, value) ==
    IF ok
    THEN [q EXCEPT !.jobs = [@ EXCEPT ![id].result = value,
                                      ![id].status = "completed"],
                   !.processing = @ \ {id}]
    ELSE [q EXCEPT !.jobs = [@ EXCEPT ![id].error = value,
                                      ![id].status = "failed"]]

\* processJob that keeps the slot of a job that has ended.
processJobEndKeepSlot(q, id, ok, value) ==
    [q EXCEPT !.jobs = IF ok THEN [@ EXCEPT ![id].result = value,
                                            ![id].status = "completed"]
                             ELSE [@ EXCEPT ![id].error = value,
                                            ![id].status = "failed"]]

\* processJob after the awaited pipeline settled: try, catch and finally run
\* in one step.  q is the queue state.
processJobEnd(q, id, ok, value) ==
    [q EXCEPT !.jobs = IF ok THEN [@ EXCEPT ![id].result = value,
                                            ![id].status = "completed"]
                             ELSE [@ EXCEPT ![id].error = value,
                                            ![id].status = "failed"],
              !.processing = @ \ {id}]

\* startProcessing from its entry to its first suspension (or its return).
\* q is the queue state it starts from.
startProcessing(q) ==
    IF q.isProcessing THEN q
    ELSE IF loopCondition(q.jobs, q.processing)
         THEN LET a == admit(q.jobs, q.processing)
              IN  [q EXCEPT !.jobs = a.jobs, !.processing = a.processing,
                            !.isProcessing = TRUE, !.sleepers = @ + 1]
         ELSE [q EXCEPT !.isProcessing = FALSE]

\* An add() that never starts the scheduler.
lazyStartNever(q) == q

\* The call of startProcessing in add().
lazyStart(q) == IF ~q.isProcessing THEN startProcessing(q) ELSE q

-----------------------------------------------------------------------------
(* processStableStudy: the locals of one run and the synchronous code      *)
(* between its awaits.  pc names the await the run is suspended at; calls  *)
(* is the set of archive request sites the run has issued so far, found    *)
(* the instance counts the three discovery methods logged (-1: not run).   *)
(* What else the run logged is kept as well: fetched, the series Method 2  *)
(* got an answer for; labErrors, the awaits of findOrCreateSourceLab at    *)
(* which the Lab store raised an error; labFrom, the await after which     *)
(* findOrCreateSourceLab returned; notifyFailed, whether the notification  *)
(* failed; reported, the Modality of the tags the archive reported, before *)
(* the placeholder tags; probed, the series whose fetch in the modality    *)
(* loop got an answer.                                                     *)

NoStudyInfo == [Series |-> <<>>, MainDicomTags |-> NoTags]

NoPatient ==
    [_id |-> 0, mrn |-> Undefined, patientID |-> "", patientNameRaw |-> Undefined,
     firstName |-> <<>>, lastName |-> <<>>, gender |-> <<>>, dateOfBirth |-> <<>>,
     isAnonymous |-> FALSE]

NoLab == [_id |-> 0, name |-> <<>>, identifier |-> <<>>, isActive |-> FALSE]

NoStudyData ==
    [orthancStudyID |-> "", studyInstanceUID |-> Undefined, patient |-> 0,
     patientId |-> "", patientName |-> Undefined, sourceLab |-> 0,
     modalitiesInStudy |-> <<>>, institutionName |-> <<>>,
     workflowStatus |-> "", seriesCount |-> 0, instanceCount |-> 0,
     processingMethod |-> "", apiMethodUsed |-> ""]

idleRun ==
    [pc |-> "idle", progress |-> 0, calls |-> {},
     found |-> [m1 |-> -1, m2 |-> -1, m3 |-> -1], fetched |-> <<>>,
     labErrors |-> {}, labFrom |-> "", notifyFailed |-> FALSE,
     reported |-> Undefined, probed |-> <<>>,
     studyInfo |-> NoStudyInfo, instancesArray |-> <<>>,
     firstInstanceId |-> "", tags |-> NoTags, idx |-> 0,
     nameInfo |-> processDicomPersonName(Undefined), unknownPatient |-> FALSE,
     patientRecord |-> NoPatient, newPatient |-> NoPatient,
     customLabId |-> Undefined, labName |-> <<>>,
     labRecord |-> NoLab, newLab |-> NoLab,
     modalitiesSet |-> <<>>, dicomStudyDoc |-> 0, loaded |-> NoStudyData,
     studyData |-> NoStudyData, err |-> Null]

\* processStableStudy from its entry to the await of the study summary.
beginRun == [idleRun EXCEPT !.pc = "summary", !.progress = 10, !.calls = {"summary"}]

\* An exception inside the try block: the catch block awaits redis.setex.
toCatch(r, message) == [r EXCEPT !.pc = "cacheErr", !.err = message]

\* Set.prototype.add on a Set kept in insertion order
setAdd(set, x) ==
    IF \E i \in 1..Len(set) : set[i] = x THEN set ELSE Append(set, x)

\* An aggregation that always adds the sentinel.
afterModalitiesSentinel(r) ==
    [r EXCEPT !.modalitiesSet = setAdd(@, <<"UNKNOWN">>),
              !.progress = 80, !.pc = "studyFind"]

\* After the series loop of the modality aggregation.
afterModalities(r) ==
    [r EXCEPT !.modalitiesSet = IF @ = <<>> THEN <<<<"UNKNOWN">>>> ELSE @,
              !.progress = 80, !.pc = "studyFind"]

\* findOrCreateSourceLab returned: the modality aggregation starts.
labReturn(r, lab) ==
    LET modality == Tag(r.tags, "Modality")
        r1 == [r EXCEPT !.labRecord = lab, !.labFrom = r.pc, !.progress = 70,
                        !.modalitiesSet = IF truthy(modality) THEN <<modality>> ELSE <<>>]
    IN  IF Len(r.studyInfo.Series) > 0
        THEN [r1 EXCEPT !.pc = "modality", !.idx = 1, !.calls = @ \cup {"modality"}]
        ELSE afterModalities(r1)

DEFAULT_LAB ==
    [_id |-> 0, name |-> <<"Primary Orthanc Instance (Stable Study)">>,
     identifier |-> <<"ORTHANC_STABLE_SOURCE">>, isActive |-> TRUE]

EMERGENCY_LAB ==
    [_id |-> 0, name |-> <<"Emergency Default Lab">>,
     identifier |-> <<"EMERGENCY_DEFAULT">>, isActive |-> TRUE]

\* The Lab store raised an error at the await the run is suspended at.
labError(r) == [r EXCEPT !.labErrors = @ \cup {r.pc}]

\* An error inside the catch block of findOrCreateSourceLab is not caught
\* there: it reaches the catch block of processStableStudy.
labThrow(r) == toCatch(labError(r), "lab store error")

\* A catch (error) that gives up: the error is thrown again.
labCatchRethrow(r) == toCatch(labError(r), "lab store error")

\* catch (error) of findOrCreateSourceLab
labCatch(r) == [labError(r) EXCEPT !.pc = "labEmergencyFind"]

\* "Final fallback to default lab"
labDefault(r) == [r EXCEPT !.pc = "labDefaultFind"]

possibleLabSources(tags) ==
    <<Tag(tags, "InstitutionName"), Tag(tags, "StationName"),
      Tag(tags, "Manufacturer"), Tag(tags, "ManufacturerModelName"),
      Tag(tags, "PerformingPhysicianName"), Tag(tags, "ReferringPhysicianName")>>

labSourceUsable(source) == truthy(source) /\ Len(trim(source)) >= 3

labNameOf(source) == replaceSpaceRuns(underscoresToSpaces(trim(source)), " ")

\* An identifier that keeps the case of the name.
labIdentifierKeepCase(labName) == replaceSpaceRuns(labName, "_")

\* labName.toUpperCase().replace(/\s+/g, '_')
labIdentifierOf(labName) == replaceSpaceRuns(toUpperCase(labName), "_")

\* The loop over possibleLabSources: it returns at the first usable source.
labHeuristic(r) ==
    LET usable == SelectSeq(possibleLabSources(r.tags), labSourceUsable)
    IN  IF usable # <<>>
        THEN [r EXCEPT !.pc = "labHeuristicFind", !.labName = labNameOf(usable[1])]
        ELSE labDefault(r)

\* mongoose.Types.ObjectId.isValid, for the references the archive carries:
\* <<"oid", n>> is the ObjectId string of the Lab whose _id is n.
isValidObjectId(v) == Len(v) = 2 /\ v[1] = "oid"

\* findOrCreateSourceLab from its entry to its first await.
labBegin(r) ==
    LET customLabId == Tag(r.tags, "0011,1010")
        r1 == [r EXCEPT !.customLabId = customLabId]
    IN  IF truthy(customLabId) /\ trim(customLabId) # <<>> /\ customLabId # <<"UNKNOWN_LAB">>
        THEN IF isValidObjectId(customLabId)
             THEN [r1 EXCEPT !.pc = "labById"]
             ELSE [r1 EXCEPT !.pc = "labByIdentifier"]
        ELSE labHeuristic(r1)

\* findOrCreatePatientFromTags returned.
\* A pipeline that goes from the Patient straight to the Study.
patientReturnToStudy(r, patient) == afterModalities([r EXCEPT !.patientRecord = patient])

patientReturn(r, patient) == labBegin([r EXCEPT !.patientRecord = patient])

\* findOrCreatePatientFromTags from its entry to its first await.
patientBegin(r) ==
    LET nameInfo == processDicomPersonName(Tag(r.tags, "PatientName"))
    IN  [r EXCEPT !.nameInfo = nameInfo, !.pc = "patientFind",
                  !.unknownPatient = ~truthy(Tag(r.tags, "PatientID"))
                                     /\ ~truthy(nameInfo.fullName)]

\* "Final fallback: create minimal tags"; now stands for Date.now().
minimalTags(studyInstanceUID, now) ==
    [k \in {"PatientName", "PatientID", "StudyInstanceUID", "Modality"} |->
        CASE k = "PatientName" -> <<"Unknown Patient">>
          [] k = "PatientID" -> <<"UNKNOWN_", now>>
          [] k = "StudyInstanceUID" -> studyInstanceUID
          [] OTHER -> <<"UNKNOWN">>]

\* The two metadata fallbacks, then the call of findOrCreatePatientFromTags.
afterTags(r, now) ==
    LET main == r.studyInfo.MainDicomTags
        t1 == IF DOMAIN r.tags = {} \/ ~truthy(Tag(r.tags, "PatientName"))
              THEN spread(main, r.tags) ELSE r.tags
        t2 == IF ~truthy(Tag(t1, "PatientName")) /\ ~truthy(Tag(t1, "PatientID"))
              THEN spread(minimalTags(Tag(main, "StudyInstanceUID"), now), t1)
              ELSE t1
    IN  patientBegin([r EXCEPT !.tags = t2, !.progress = 60,
                               !.reported = Tag(t1, "Modality")])

\* After Method 3: the instance metadata is fetched if an instance is known.
afterMethod3(r, now) ==
    LET r1 == [r EXCEPT !.progress = 50]
    IN  IF r.firstInstanceId # ""
        THEN [r1 EXCEPT !.pc = "tags", !.calls = @ \cup {"tags"}]
        ELSE afterTags(r1, now)

\* The guard of Method 3.
method3Needed(r) == Len(r.instancesArray) = 0 /\ Len(r.studyInfo.Series) > 0

afterMethod2(r, now) ==
    IF method3Needed(r)
    THEN [r EXCEPT !.pc = "method3", !.idx = 1, !.calls = @ \cup {"method3"}]
    ELSE afterMethod3(r, now)

\* A Method 2 that runs whenever the study has series.
method2Always(r) == Len(r.studyInfo.Series) > 0

\* The guard of Method 2.
method2Needed(r) == Len(r.instancesArray) = 0 /\ Len(r.studyInfo.Series) > 0

afterMethod1(r, now) ==
    IF method2Needed(r)
    THEN [r EXCEPT !.pc = "method2", !.idx = 1, !.calls = @ \cup {"method2"}]
    ELSE afterMethod2(r, now)

-----------------------------------------------------------------------------
(* The archive requests of processStableStudy: what the run does when the  *)
(* awaited reply arrives.  ok = FALSE is a request that fails or times     *)
(* out; v is the state of the archive when it answers.                     *)

\* A summary step that goes on without a StudyInstanceUID.
onSummaryLenient(r, sid, v, ok) ==
    IF ~(ok /\ archiveHasStudy(sid))
    THEN toCatch(r, "Request failed")
    ELSE [r EXCEPT !.studyInfo = archiveStudy(sid, v), !.progress = 30,
                   !.pc = "method1", !.calls = @ \cup {"method1"}]

onSummary(r, sid, v, ok) ==
    IF ~(ok /\ archiveHasStudy(sid))
    THEN toCatch(r, "Request failed")
    ELSE LET studyInfo == archiveStudy(sid, v)
         IN  IF ~truthy(Tag(studyInfo.MainDicomTags, "StudyInstanceUID"))
             THEN toCatch(r, "StudyInstanceUID not found in stable study")
             ELSE [r EXCEPT !.studyInfo = studyInfo, !.progress = 30,
                            !.pc = "method1", !.calls = @ \cup {"method1"}]

onMethod1(r, sid, v, ok, now) ==
    IF ok
    THEN LET listed == archiveInstances(sid, v)
         IN  afterMethod1([r EXCEPT !.instancesArray = listed,
                                    !.found.m1 = Len(listed),
                                    !.firstInstanceId =
                                        IF Len(listed) > 0 THEN listed[1] ELSE @], now)
    ELSE afterMethod1(r, now)

\* A Method 2 that lets the error of a series fetch escape its loop.
onMethod2Fatal(r, ok, now) ==
    LET seriesId == r.studyInfo.Series[r.idx]
        seriesData == archiveSeriesInfo(seriesId)
        r1 == [r EXCEPT !.instancesArray = @ \o seriesData.Instances,
                        !.fetched = Append(@, seriesId),
                        !.firstInstanceId =
                            IF @ = "" /\ Len(seriesData.Instances) > 0
                            THEN seriesData.Instances[1] ELSE @]
    IN  IF ~ok THEN toCatch(r, "Request failed")
        ELSE IF r.idx < Len(r.studyInfo.Series)
        THEN [r1 EXCEPT !.idx = @ + 1]
        ELSE afterMethod2([r1 EXCEPT !.found.m2 = Len(r1.instancesArray)], now)

onMethod2(r, ok, now) ==
    LET seriesId == r.studyInfo.Series[r.idx]
        seriesData == archiveSeriesInfo(seriesId)
        r1 == IF ok
              THEN [r EXCEPT !.instancesArray = @ \o seriesData.Instances,
                             !.fetched = Append(@, seriesId),
                             !.firstInstanceId =
                                 IF @ = "" /\ Len(seriesData.Instances) > 0
                                 THEN seriesData.Instances[1] ELSE @,
                             !.tags = IF DOMAIN @ = {}
                                      THEN spread(@, seriesData.MainDicomTags) ELSE @]
              ELSE r
    IN  IF r.idx < Len(r.studyInfo.Series)
        THEN [r1 EXCEPT !.idx = @ + 1]
        ELSE afterMethod2([r1 EXCEPT !.found.m2 = Len(r1.instancesArray)], now)

onMethod3(r, ok, now) ==
    LET seriesId == r.studyInfo.Series[r.idx]
        r1 == IF ok /\ archiveIsInstance(seriesId)
              THEN [r EXCEPT !.instancesArray = Append(@, seriesId),
                             !.firstInstanceId = IF @ = "" THEN seriesId ELSE @]
              ELSE r
    IN  IF r.idx < Len(r.studyInfo.Series)
        THEN [r1 EXCEPT !.idx = @ + 1]
        ELSE afterMethod3([r1 EXCEPT !.found.m3 = Len(r1.instancesArray)], now)

\* A metadata fetch whose failure is not caught.
onTagsFatal(r, ok, now) ==
    IF ok THEN afterTags([r EXCEPT !.tags = spread(@, archiveTags(r.firstInstanceId))], now)
    ELSE toCatch(r, "Request failed")

onTags(r, ok, now) ==
    afterTags(IF ok THEN [r EXCEPT !.tags = spread(@, archiveTags(r.firstInstanceId))]
                    ELSE r, now)

\* The metadata fetch answered with the tag set simplifiedTags.
tagsReceived(r, simplifiedTags, now) ==
    afterTags([r EXCEPT !.tags = spread(@, simplifiedTags)], now)

onModality(r, ok) ==
    LET seriesId == r.studyInfo.Series[r.idx]
        modality == Tag(archiveSeriesInfo(seriesId).MainDicomTags, "Modality")
        r0 == IF ok THEN [r EXCEPT !.probed = Append(@, seriesId)] ELSE r
        r1 == IF ok /\ truthy(modality)
              THEN [r0 EXCEPT !.modalitiesSet = setAdd(@, modality)] ELSE r0
    IN  IF r.idx < Len(r.studyInfo.Series)
        THEN [r1 EXCEPT !.idx = @ + 1]
        ELSE afterModalities(r1)

archivePcs == {"summary", "method1", "method2", "method3", "tags", "modality"}

onArchive(r, sid, v, ok, now) ==
    CASE r.pc = "summary"  -> onSummary(r, sid, v, ok)
      [] r.pc = "method1"  -> onMethod1(r, sid, v, ok, now)
      [] r.pc = "method2"  -> onMethod2(r, ok, now)
      [] r.pc = "method3"  -> onMethod3(r, ok, now)
      [] r.pc = "tags"     -> onTags(r, ok, now)
      [] r.pc = "modality" -> onModality(r, ok)

-----------------------------------------------------------------------------
(* findOrCreatePatientFromTags against the Patient collection.  A step     *)
(* yields the run and the collection after it; ok = FALSE is a store call  *)
(* that throws.                                                            *)

\* Patient.findOne({ mrn }): the first match, NoPatient for null.
findPatient(ps, mrn) ==
    LET hits == SelectSeq(ps, LAMBDA d : d.mrn = mrn)
    IN  IF hits = <<>> THEN NoPatient ELSE hits[1]

orEmpty(v) == IF truthy(v) THEN v ELSE <<>>

Digits == {"0", "1", "2", "3", "4", "5", "6", "7", "8", "9"}

digitValue(c) ==
    CASE c = "0" -> 0 [] c = "1" -> 1 [] c = "2" -> 2 [] c = "3" -> 3 [] c = "4" -> 4
      [] c = "5" -> 5 [] c = "6" -> 6 [] c = "7" -> 7 [] c = "8" -> 8 [] OTHER -> 9

\* parseInt of a sequence of digits
RECURSIVE parseInt(_)
parseInt(s) ==
    IF s = <<>> THEN 0 ELSE 10 * parseInt(SubSeq(s, 1, Len(s) - 1)) + digitValue(s[Len(s)])

\* formatDicomDateToISO of a date of the archive, one token per character:
\* a valid YYYYMMDD gives the Date of that day at 00:00 UTC.  The archive
\* sends no date in another form that new Date() parses, so every other
\* string gives the current date.
formatDicomDateToISO(dicomDate, now) ==
    LET cleanDate == trim(dicomDate)
        year  == SubSeq(cleanDate, 1, 4)
        month == SubSeq(cleanDate, 5, 6)
        day   == SubSeq(cleanDate, 7, 8)
    IN  IF /\ Len(cleanDate) = 8
           /\ \A i \in 1..8 : cleanDate[i] \in Digits
           /\ parseInt(year) >= 1900 /\ parseInt(year) <= 2100
           /\ parseInt(month) >= 1 /\ parseInt(month) <= 12
           /\ parseInt(day) >= 1 /\ parseInt(day) <= 31
        THEN <<"Date">> \o year \o <<"-">> \o month \o <<"-">> \o day
        ELSE <<"Date", now>>

\* patientBirthDate ? formatDicomDateToISO(patientBirthDate) : ''
birthDateOf(tags, now) ==
    IF truthy(Tag(tags, "PatientBirthDate"))
    THEN formatDicomDateToISO(Tag(tags, "PatientBirthDate"), now) ELSE <<>>

\* An update that is made whenever a name was parsed.
nameParsed(patient, nameInfo) == truthy(nameInfo.formattedForDisplay)

\* "Update existing patient if name format has improved"
nameImproved(patient, nameInfo) ==
    /\ truthy(patient.patientNameRaw)
    /\ includes(patient.patientNameRaw, "^")
    /\ truthy(nameInfo.formattedForDisplay)
    /\ ~includes(nameInfo.formattedForDisplay, "^")

onPatientFind(r, ps, now) ==
    IF r.unknownPatient
    THEN LET unknownPatient == findPatient(ps, <<"UNKNOWN_STABLE_STUDY">>)
         IN  IF unknownPatient._id # 0
             THEN patientReturn(r, unknownPatient)
             ELSE [r EXCEPT !.pc = "patientSave",
                    !.newPatient =
                        [_id |-> 0, mrn |-> <<"UNKNOWN_STABLE_STUDY">>, patientID |-> now,
                         patientNameRaw |-> <<"Unknown Patient (Stable Study)">>,
                         firstName |-> <<>>, lastName |-> <<>>,
                         gender |-> orEmpty(Tag(r.tags, "PatientSex")),
                         dateOfBirth |-> orEmpty(Tag(r.tags, "PatientBirthDate")),
                         isAnonymous |-> TRUE]]
    ELSE LET patientIdDicom == Tag(r.tags, "PatientID")
             patient == findPatient(ps, patientIdDicom)
         IN  IF patient._id = 0
             THEN [r EXCEPT !.pc = "patientSave",
                    !.newPatient =
                        [_id |-> 0,
                         mrn |-> IF truthy(patientIdDicom) THEN patientIdDicom
                                 ELSE <<"ANON_", now>>,
                         patientID |-> now,
                         patientNameRaw |-> r.nameInfo.formattedForDisplay,
                         firstName |-> r.nameInfo.firstName,
                         lastName |-> r.nameInfo.lastName,
                         gender |-> orEmpty(Tag(r.tags, "PatientSex")),
                         dateOfBirth |-> birthDateOf(r.tags, now),
                         isAnonymous |-> FALSE]]
             ELSE IF nameImproved(patient, r.nameInfo)
             THEN [r EXCEPT !.pc = "patientUpdate",
                    !.newPatient =
                        [patient EXCEPT !.patientNameRaw = r.nameInfo.formattedForDisplay,
                                        !.firstName = r.nameInfo.firstName,
                                        !.lastName = r.nameInfo.lastName]]
             ELSE patientReturn(r, patient)

onPatient(r, ps, ok, now) ==
    IF ~ok THEN [r |-> toCatch(r, "patient store error"), patients |-> ps]
    ELSE CASE r.pc = "patientFind" ->
                [r |-> onPatientFind(r, ps, now), patients |-> ps]
           [] r.pc = "patientSave" ->
                LET doc == [r.newPatient EXCEPT !._id = Len(ps) + 1]
                IN  [r |-> patientReturn(r, doc), patients |-> Append(ps, doc)]
           [] r.pc = "patientUpdate" ->
                LET doc == r.newPatient
                IN  [r |-> patientReturn(r, doc),
                     patients |-> [ps EXCEPT ![doc._id].patientNameRaw = doc.patientNameRaw,
                                             ![doc._id].firstName = doc.firstName,
                                             ![doc._id].lastName = doc.lastName]]

patientPcs == {"patientFind", "patientSave", "patientUpdate"}

-----------------------------------------------------------------------------
(* findOrCreateSourceLab against the Lab collection, whose identifier      *)
(* field is unique.                                                        *)

\* Lab.findOne / Lab.findById: the first of the matching documents, NoLab for null.
findLab(hits) == IF hits = <<>> THEN NoLab ELSE hits[1]

\* The Lab _id an ObjectId string refers to.
objectIdOf(v) == CASE v[2] = "1" -> 1 [] v[2] = "2" -> 2 [] OTHER -> 0

\* A test that takes the Lab found by its id, active or not.
foundById(labFromCustomId) == labFromCustomId._id # 0

\* labFromCustomId && labFromCustomId.isActive
usableById(labFromCustomId) == labFromCustomId._id # 0 /\ labFromCustomId.isActive

\* A default tier that creates the default Lab every time.
defaultLabNeverFound(defaultLab) == TRUE

\* if (!defaultLab)
defaultLabMissing(defaultLab) == defaultLab._id = 0

duplicateIdentifier(ls, lab) == \E i \in 1..Len(ls) : ls[i].identifier = lab.identifier

\* lab.save() of a new Lab: the stored document, or a duplicate-key error.
saveLab(r, ls, ok, failed) ==
    IF ~ok \/ duplicateIdentifier(ls, r.newLab)
    THEN [r |-> failed, labs |-> ls]
    ELSE LET doc == [r.newLab EXCEPT !._id = Len(ls) + 1]
         IN  [r |-> labReturn(r, doc), labs |-> Append(ls, doc)]

onLabFind(r, ls, ok) ==
    CASE r.pc = "labById" ->
            LET lab == findLab(SelectSeq(ls, LAMBDA d : d._id = objectIdOf(r.customLabId)))
            IN  IF ~ok THEN labHeuristic(labError(r))
                ELSE IF usableById(lab)
                THEN labReturn(r, lab) ELSE labHeuristic(r)
      [] r.pc = "labByIdentifier" ->
            LET lab == findLab(SelectSeq(ls, LAMBDA d :
                           d.identifier = toUpperCase(r.customLabId) /\ d.isActive))
            IN  IF ~ok THEN labHeuristic(labError(r))
                ELSE IF lab._id # 0 THEN labReturn(r, lab) ELSE labHeuristic(r)
      [] r.pc = "labHeuristicFind" ->
            LET identifier == labIdentifierOf(r.labName)
                lab == findLab(SelectSeq(ls, LAMBDA d :
                           /\ \/ toUpperCase(d.name) = toUpperCase(r.labName)
                              \/ d.identifier = identifier
                           /\ d.isActive))
            IN  IF ~ok THEN labCatch(r)
                ELSE IF lab._id # 0 THEN labReturn(r, lab)
                ELSE [r EXCEPT !.pc = "labHeuristicSave",
                        !.newLab = [_id |-> 0, name |-> r.labName,
                                    identifier |-> identifier, isActive |-> TRUE]]
      [] r.pc = "labDefaultFind" ->
            LET lab == findLab(SelectSeq(ls, LAMBDA d : d.identifier = DEFAULT_LAB.identifier))
            IN  IF ~ok THEN labCatch(r)
                ELSE IF ~defaultLabMissing(lab) THEN labReturn(r, lab)
                ELSE [r EXCEPT !.pc = "labDefaultSave", !.newLab = DEFAULT_LAB]
      [] r.pc = "labEmergencyFind" ->
            LET lab == findLab(SelectSeq(ls, LAMBDA d : d.isActive))
            IN  IF ~ok THEN labThrow(r)
                ELSE IF lab._id # 0 THEN labReturn(r, lab)
                ELSE [r EXCEPT !.pc = "labEmergencySave", !.newLab = EMERGENCY_LAB]

labFindPcs ==
    {"labById", "labByIdentifier", "labHeuristicFind", "labDefaultFind", "labEmergencyFind"}

labSavePcs == {"labHeuristicSave", "labDefaultSave", "labEmergencySave"}

onLab(r, ls, ok) ==
    IF r.pc \in labFindPcs THEN [r |-> onLabFind(r, ls, ok), labs |-> ls]
    ELSE IF r.pc = "labEmergencySave"
         THEN saveLab(r, ls, ok, labThrow(r))
         ELSE saveLab(r, ls, ok, labCatch(r))

-----------------------------------------------------------------------------
(* The study upsert against the DicomStudy collection, whose               *)
(* studyInstanceUID field is unique.  A stored study is its _id, the       *)
(* fields of studyData (data) and its statusHistory.                       *)

\* const studyData = { ... }
studyDataOf(r, orthancStudyId) ==
    LET actualInstanceCount == Len(r.instancesArray)
        actualSeriesCount == Len(r.studyInfo.Series)
    IN  [orthancStudyID |-> orthancStudyId,
         studyInstanceUID |-> Tag(r.studyInfo.MainDicomTags, "StudyInstanceUID"),
         patient |-> r.patientRecord._id,
         patientId |-> r.patientRecord.patientID,
         patientName |-> r.patientRecord.patientNameRaw,
         sourceLab |-> r.labRecord._id,
         modalitiesInStudy |-> r.modalitiesSet,
         institutionName |-> orEmpty(Tag(r.tags, "InstitutionName")),
         workflowStatus |-> IF actualInstanceCount > 0 THEN "new_study_received"
                            ELSE "new_metadata_only",
         seriesCount |-> actualSeriesCount,
         instanceCount |-> actualInstanceCount,
         processingMethod |-> IF actualInstanceCount > 0 THEN "with_instances"
                              ELSE "metadata_only",
         apiMethodUsed |-> IF actualInstanceCount > 0 THEN "series_lookup"
                           ELSE "study_metadata_only"]

\* The entry pushed on statusHistory.
historyEntry(r, note) ==
    [status |-> r.studyData.workflowStatus, note |-> note,
     seriesCount |-> r.studyData.seriesCount,
     instanceCount |-> r.studyData.instanceCount, lab |-> r.labRecord.name]

\* DicomStudy.findOne({ studyInstanceUID }): the _id of the match, 0 for null.
findStudy(ss, studyInstanceUID) ==
    LET hits == SelectSeq(ss, LAMBDA d : d.data.studyInstanceUID = studyInstanceUID)
    IN  IF hits = <<>> THEN 0 ELSE hits[1]._id

\* The unique index on studyInstanceUID rejects a second document.
duplicateKey(ss, studyInstanceUID) ==
    \E i \in 1..Len(ss) : ss[i].data.studyInstanceUID = studyInstanceUID

\* An update that leaves the stored fields alone.
keepStoredData(stored, loaded, studyData) == stored

\* Object.assign(dicomStudyDoc, studyData) followed by save(): the paths
\* whose value differs from the loaded document are written.
assignStudyData(stored, loaded, studyData) ==
    [f \in DOMAIN stored |->
        IF studyData[f] # loaded[f] THEN studyData[f] ELSE stored[f]]

\* A history that is replaced by its newest entry.
replaceHistory(statusHistory, entry) == <<entry>>

\* statusHistory of an existing study after push and save.
pushHistory(statusHistory, entry) == Append(statusHistory, entry)

onStudyFind(r, ss, orthancStudyId) ==
    LET id == findStudy(ss, Tag(r.studyInfo.MainDicomTags, "StudyInstanceUID"))
    IN  [r EXCEPT !.dicomStudyDoc = id,
                  !.loaded = IF id # 0 THEN ss[id].data ELSE NoStudyData,
                  !.studyData = studyDataOf(r, orthancStudyId),
                  !.pc = "studySave"]

onStudySave(r, ss) ==
    LET saved == [r EXCEPT !.progress = 90, !.pc = "notify"]
    IN  IF r.dicomStudyDoc # 0
        THEN [r |-> saved,
              studies |-> [ss EXCEPT
                  ![r.dicomStudyDoc].data = assignStudyData(@, r.loaded, r.studyData),
                  ![r.dicomStudyDoc].statusHistory =
                      pushHistory(@, historyEntry(r, "updated"))]]
        ELSE IF duplicateKey(ss, r.studyData.studyInstanceUID)
        THEN [r |-> toCatch(r, "E11000 duplicate key error"), studies |-> ss]
        ELSE [r |-> saved,
              studies |-> Append(ss, [_id |-> Len(ss) + 1, data |-> r.studyData,
                                      statusHistory |-> <<historyEntry(r, "created")>>])]

onStudy(r, ss, orthancStudyId, ok) ==
    IF ~ok THEN [r |-> toCatch(r, "study store error"), studies |-> ss]
    ELSE IF r.pc = "studyFind"
         THEN [r |-> onStudyFind(r, ss, orthancStudyId), studies |-> ss]
         ELSE onStudySave(r, ss)

studyPcs == {"studyFind", "studySave"}

\* A notification whose failure is not caught.
onNotifyFatal(r, ok) ==
    IF ok THEN [r EXCEPT !.progress = 100, !.pc = "cacheOk"]
    ELSE toCatch([r EXCEPT !.notifyFailed = TRUE], "notification failed")

\* websocketService.notifySimpleNewStudy(): a failure is logged and dropped.
onNotify(r, ok) == [r EXCEPT !.progress = 100, !.pc = "cacheOk", !.notifyFailed = ~ok]

-----------------------------------------------------------------------------
(* The state and the steps.                                                *)

queueState ==
    [jobs |-> jobs, processing |-> processing,
     isProcessing |-> isProcessing, sleepers |-> sleepers]

\* The runs after a step of the queue: a job that became active in the step
\* has run processStableStudy to its first await.
startRuns(newJobs) ==
    [i \in 1..Len(newJobs) |->
        IF newJobs[i].status = "active" /\ (i > Len(jobs) \/ jobs[i].status = "waiting")
        THEN beginRun
        ELSE IF i > Len(run) THEN idleRun ELSE run[i]]

setQueue(q) ==
    \E after \in {q} :
        /\ jobs' = after.jobs
        /\ processing' = after.processing
        /\ isProcessing' = after.isProcessing
        /\ sleepers' = after.sleepers
        /\ run' = startRuns(after.jobs)

add(jobData) ==
    LET jobId  == nextJobId
        stored == [queueState EXCEPT !.jobs = Append(jobs, newJob(jobId, jobData))]
    IN  /\ nextJobId' = nextJobId + 1
        /\ setQueue(lazyStart(stored))
        /\ UNCHANGED <<archive, patients, labs, studies, cache>>

\* startProcessing resumed after the sleep: the loop condition is tested
\* again; the loop admits and sleeps again, or ends and clears the flag.
wakeUp ==
    /\ sleepers > 0
    /\ IF loopCondition(jobs, processing)
       THEN LET a == admit(jobs, processing)
            IN  setQueue([queueState EXCEPT !.jobs = a.jobs,
                                            !.processing = a.processing])
       ELSE setQueue([queueState EXCEPT !.isProcessing = FALSE,
                                        !.sleepers = @ - 1])
    /\ UNCHANGED <<nextJobId, archive, patients, labs, studies, cache>>

\* The awaited processStableStudy(job) settles and processJob finishes.
settle(id, ok, value) ==
    \E q \in {processJobEnd(queueState, id, ok, value)} :
        /\ jobs' = q.jobs
        /\ processing' = q.processing
        /\ isProcessing' = q.isProcessing
        /\ sleepers' = q.sleepers
        /\ run' = [run EXCEPT ![id].pc = "done"]
        /\ nextJobId' = nextJobId

suspendedAt(j, pcs) ==
    j \in 1..Len(jobs) /\ jobs[j].status = "active" /\ run[j].pc \in pcs

\* A run moves on to its next await.
resume(j, r) ==
    /\ run' = [run EXCEPT ![j] = r]
    /\ jobs' = [jobs EXCEPT ![j].progress = r.progress]
    /\ UNCHANGED <<processing, nextJobId, isProcessing, sleepers>>

archiveReply(j, ok, now) ==
    /\ suspendedAt(j, archivePcs)
    /\ \E r \in {onArchive(run[j], jobs[j].data.orthancStudyId, archive, ok, now)} :
          resume(j, r)
    /\ UNCHANGED <<archive, patients, labs, studies, cache>>

patientReply(j, ok, now) ==
    /\ suspendedAt(j, patientPcs)
    /\ \E after \in {onPatient(run[j], patients, ok, now)} :
          resume(j, after.r) /\ patients' = after.patients
    /\ UNCHANGED <<archive, labs, studies, cache>>

labReply(j, ok) ==
    /\ suspendedAt(j, labFindPcs \cup labSavePcs)
    /\ \E after \in {onLab(run[j], labs, ok)} :
          resume(j, after.r) /\ labs' = after.labs
    /\ UNCHANGED <<archive, patients, studies, cache>>

studyReply(j, ok) ==
    /\ suspendedAt(j, studyPcs)
    /\ \E after \in {onStudy(run[j], studies, jobs[j].data.orthancStudyId, ok)} :
          resume(j, after.r) /\ studies' = after.studies
    /\ UNCHANGED <<archive, patients, labs, cache>>

notifyReply(j, ok) ==
    /\ suspendedAt(j, {"notify"})
    /\ \E r \in {onNotify(run[j], ok)} : resume(j, r)
    /\ UNCHANGED <<archive, patients, labs, studies, cache>>

\* A write that stores nothing.
setexDropped(c, key, value) == c

\* redis.setex(key, 3600, value)
setex(c, key, value) ==
    [k \in DOMAIN c \cup {key} |-> IF k = key THEN value ELSE c[k]]

\* The success outcome is cached and processStableStudy returns; or the
\* catch block has cached the failure and rethrows.
cacheReply(j, ok) ==
    /\ suspendedAt(j, {"cacheOk", "cacheErr"})
    /\ LET r == run[j]
           key == jobs[j].data.requestId
       IN  IF r.pc = "cacheOk"
           THEN IF ok
                THEN cache' = setex(cache, key, [success |-> TRUE])
                     /\ settle(j, TRUE, "success")
                ELSE resume(j, toCatch(r, "redis error")) /\ cache' = cache
           ELSE IF ok
                THEN cache' = setex(cache, key, [success |-> FALSE])
                     /\ settle(j, FALSE, r.err)
                ELSE cache' = cache /\ settle(j, FALSE, "redis error")
    /\ UNCHANGED <<archive, patients, labs, studies>>

\* GET /job-status/:requestId: the status in the reply.
jobStatus(requestId) ==
    IF requestId \in DOMAIN cache
    THEN IF cache[requestId].success THEN "completed" ELSE "failed"
    ELSE LET found == SelectSeq(jobs, LAMBDA job : job.data.requestId = requestId)
         IN  IF found # <<>> THEN found[1].status ELSE "not_found"

\* The archive receives the rest of study "X".
archiveReceives ==
    /\ archive = 1
    /\ archive' = 2
    /\ UNCHANGED <<jobs, processing, nextJobId, isProcessing, sleepers,
                   run, patients, labs, studies, cache>>

\* A downstream component advances a study: a report is uploaded.
uploadStudyReport(id) ==
    /\ studies[id].data.workflowStatus # "report_finalized"
    /\ studies' = [studies EXCEPT
           ![id].data.workflowStatus = "report_finalized",
           ![id].statusHistory =
               Append(@, [status |-> "report_finalized", note |-> "report",
                          seriesCount |-> 0, instanceCount |-> 0, lab |-> <<>>])]
    /\ UNCHANGED <<jobs, processing, nextJobId, isProcessing, sleepers,
                   run, archive, patients, labs, cache>>

Init ==
    /\ jobs = <<>>
    /\ processing = {}
    /\ nextJobId = 1
    /\ isProcessing = FALSE
    /\ sleepers = 0
    /\ run = <<>>
    /\ archive = 1
    /\ patients = <<>>
    /\ labs = <<>>
    /\ studies = <<>>
    /\ cache = [k \in {} |-> [success |-> FALSE]]

\* Values of Date.now() that matter: two calls may or may not agree.
Clock == {"t1", "t2"}

\* The value of Date.now() during a burst of notifications.
Tick == "t1"

-----------------------------------------------------------------------------
(* Spec: jobs enqueued by the /stable-study route run concurrently against *)
(* an archive and stores that answer every call.  The notifications are    *)
(* for a study the archive holds and for one it does not know; they come   *)
(* in a burst, within one tick of the clock.                               *)

NotifiedIds == {"X", "BAD"}

Enqueue ==
    /\ nextJobId <= MaxJobs
    /\ \E sid \in NotifiedIds : add([orthancStudyId |-> sid, requestId |-> nextJobId])

Wake == wakeUp

Archive == \E j \in 1..Len(jobs) : archiveReply(j, TRUE, Tick)

PatientStore == \E j \in 1..Len(jobs) : patientReply(j, TRUE, Tick)

LabStore == \E j \in 1..Len(jobs) : labReply(j, TRUE)

StudyStore == \E j \in 1..Len(jobs) : studyReply(j, TRUE)

Notify == \E j \in 1..Len(jobs) : notifyReply(j, TRUE)

Cache == \E j \in 1..Len(jobs) : cacheReply(j, TRUE)

ArchiveReceives == archiveReceives

UploadReport == \E id \in 1..Len(studies) : uploadStudyReport(id)

Next ==
    \/ Enqueue \/ Wake \/ Archive \/ PatientStore \/ LabStore \/ StudyStore
    \/ Notify \/ Cache

Spec == Init /\ [][Next]_vars

-----------------------------------------------------------------------------
(* SeqSpec: the same studies are announced again and again, each           *)
(* notification after the job of the one before has ended; meanwhile the   *)
(* archive receives the rest of study "X" and reports are uploaded.        *)

allEnded == \A i \in 1..Len(jobs) : jobs[i].status \in {"completed", "failed"}

EnqueueNext ==
    /\ nextJobId <= MaxIngestions
    /\ allEnded
    /\ \E sid \in StudyIds : add([orthancStudyId |-> sid, requestId |-> nextJobId])

ArchiveLater == \E j \in 1..Len(jobs), now \in Clock : archiveReply(j, TRUE, now)

PatientStoreLater == \E j \in 1..Len(jobs), now \in Clock : patientReply(j, TRUE, now)

SeqNext ==
    \/ EnqueueNext \/ Wake \/ ArchiveLater \/ PatientStoreLater \/ LabStore
    \/ StudyStore \/ Notify \/ Cache \/ ArchiveReceives \/ UploadReport

SeqSpec == Init /\ [][SeqNext]_vars

-----------------------------------------------------------------------------
(* ExtractSpec: one job against an archive whose every request may fail or *)
(* time out, and a notifier that may fail.                                 *)

EnqueueOne ==
    /\ nextJobId = 1
    /\ \E sid \in StudyIds : add([orthancStudyId |-> sid, requestId |-> nextJobId])

FlakyArchive ==
    \E j \in 1..Len(jobs), ok \in BOOLEAN, now \in Clock : archiveReply(j, ok, now)

FlakyNotify == \E j \in 1..Len(jobs), ok \in BOOLEAN : notifyReply(j, ok)

ExtractNext ==
    \/ EnqueueOne \/ Wake \/ FlakyArchive \/ PatientStoreLater \/ LabStore \/ StudyStore
    \/ FlakyNotify \/ Cache \/ ArchiveReceives

ExtractSpec == Init /\ [][ExtractNext]_vars

-----------------------------------------------------------------------------
(* QueueSpec: the queue alone under a burst of notifications, one of them *)
(* for a study the archive does not know.  The pipeline of an admitted job *)
(* is any run that ends as in Spec: it returns a result for a study the    *)
(* archive holds and throws for the unknown one.                           *)

QAdd ==
    /\ nextJobId <= MaxBurst
    /\ add([orthancStudyId |-> IF nextJobId = BadJobId THEN "BAD" ELSE "X",
            requestId |-> nextJobId])

QReturn ==
    /\ \E id \in processing :
          /\ jobs[id].status = "active"
          /\ archiveHasStudy(jobs[id].data.orthancStudyId)
          /\ settle(id, TRUE, "success")
    /\ UNCHANGED <<archive, patients, labs, studies, cache>>

QThrow ==
    /\ \E id \in processing :
          /\ jobs[id].status = "active"
          /\ ~archiveHasStudy(jobs[id].data.orthancStudyId)
          /\ settle(id, FALSE, "Request failed")
    /\ UNCHANGED <<archive, patients, labs, studies, cache>>

QueueNext == QAdd \/ Wake \/ QReturn \/ QThrow

QueueSpec == Init /\ [][QueueNext]_vars

-----------------------------------------------------------------------------
(* FairSpec: Spec where the sleep of the scheduler ends and every external *)
(* call returns.                                                           *)

FairSpec ==
    /\ Spec
    /\ WF_vars(Wake) /\ WF_vars(Archive) /\ WF_vars(PatientStore)
    /\ WF_vars(LabStore) /\ WF_vars(StudyStore) /\ WF_vars(Notify)
    /\ WF_vars(Cache)

(* FairQueueSpec: QueueSpec where the sleep of the scheduler ends and the  *)
(* pipeline of every admitted job returns or throws.                       *)

FairQueueSpec ==
    /\ QueueSpec
    /\ WF_vars(Wake) /\ WF_vars(QReturn) /\ WF_vars(QThrow)

-----------------------------------------------------------------------------
(* Stores that other parts of the system have written to before the first  *)
(* notification arrives: a Patient stored with the raw DICOM form of the   *)
(* name, a Lab that was switched off and, possibly, a Lab in use.          *)

legacyPatient ==
    [_id |-> 1, mrn |-> <<"P1">>, patientID |-> "p0",
     patientNameRaw |-> <<"D", "^", "J">>, firstName |-> <<>>, lastName |-> <<>>,
     gender |-> <<"F">>, dateOfBirth |-> <<"Date", "1950">>, isAnonymous |-> FALSE]

closedLab ==
    [_id |-> 1, name |-> <<"l", "a", "b">>, identifier |-> <<"L", "A", "B">>,
     isActive |-> FALSE]

openLab ==
    [_id |-> 2, name |-> <<"a", "b", "c">>, identifier |-> <<"A", "B", "C">>,
     isActive |-> TRUE]

SeededInit ==
    /\ jobs = <<>>
    /\ processing = {}
    /\ nextJobId = 1
    /\ isProcessing = FALSE
    /\ sleepers = 0
    /\ run = <<>>
    /\ archive = 1
    /\ patients = <<legacyPatient>>
    /\ labs \in {<<closedLab>>, <<closedLab, openLab>>}
    /\ studies = <<>>
    /\ cache = [k \in {} |-> [success |-> FALSE]]

(* ResolveSpec: notifications, each after the job of the one before has    *)
(* ended, for studies that take the resolvers through their tiers.         *)

ResolveIds == {"X", "U", "D", "I"}

EnqueueResolve ==
    /\ nextJobId <= MaxIngestions
    /\ allEnded
    /\ \E sid \in ResolveIds : add([orthancStudyId |-> sid, requestId |-> nextJobId])

ResolveNext ==
    \/ EnqueueResolve \/ Wake \/ ArchiveLater \/ PatientStoreLater \/ LabStore
    \/ StudyStore \/ Notify \/ Cache

ResolveSpec == SeededInit /\ [][ResolveNext]_vars

(* RaceSpec: a burst of notifications for studies that resolve to the      *)
(* default Lab or to the Lab of their institution; their jobs run          *)
(* concurrently.                                                           *)

RaceIds == {"D", "X"}

EnqueueRace ==
    /\ nextJobId <= MaxJobs
    /\ \E sid \in RaceIds : add([orthancStudyId |-> sid, requestId |-> nextJobId])

RaceNext ==
    \/ EnqueueRace \/ Wake \/ Archive \/ PatientStore \/ LabStore \/ StudyStore
    \/ Notify \/ Cache

RaceSpec == SeededInit /\ [][RaceNext]_vars

(* FaultSpec: one job, while any call of a store, of the cache or of the   *)
(* notifier may raise an error.                                            *)

FaultIds == {"X", "D", "I", "BAD"}

EnqueueFaulty ==
    /\ nextJobId = 1
    /\ \E sid \in FaultIds : add([orthancStudyId |-> sid, requestId |-> nextJobId])

FlakyPatientStore ==
    \E j \in 1..Len(jobs), ok \in BOOLEAN : patientReply(j, ok, Tick)

FlakyLabStore == \E j \in 1..Len(jobs), ok \in BOOLEAN : labReply(j, ok)

FlakyStudyStore == \E j \in 1..Len(jobs), ok \in BOOLEAN : studyReply(j, ok)

FlakyCache == \E j \in 1..Len(jobs), ok \in BOOLEAN : cacheReply(j, ok)

FaultNext ==
    \/ EnqueueFaulty \/ Wake \/ Archive \/ FlakyPatientStore \/ FlakyLabStore
    \/ FlakyStudyStore \/ FlakyNotify \/ FlakyCache

FaultSpec == SeededInit /\ [][FaultNext]_vars

-----------------------------------------------------------------------------
(* TagsSpec: one job for study "X", whose instance the archive reports     *)
(* with any patient name or any facility name out of a bounded set; the    *)
(* stores are empty and answer every call.                                 *)

\* The strings over an alphabet, up to a length.
stringsOver(alphabet, n) == UNION {[1..k -> alphabet] : k \in 0..n}

\* PatientName values: absent, short strings of a letter, carets and
\* spaces, and names with five and six components.
PersonNames ==
    {Undefined} \cup stringsOver({"a", "^", " "}, MaxChars)
    \cup {<<"f", "^", "g", "^", "m", "^", "p", "^", "s">>,
          <<"f", "^", "g", "^", "m", "^", "p", "^", "s", "^", "x">>,
          <<"f", "^", "^", "^", "p">>}

\* InstitutionName values: absent, and short strings of a letter, spaces
\* and underscores.
FacilityNames == {Undefined} \cup stringsOver({"a", " ", "_"}, MaxChars)

\* GET /instances/{id}/simplified-tags answering with the given names.
namedTags(patientName, institutionName) ==
    LET present == {"PatientID"}
                   \cup (IF patientName = Undefined THEN {} ELSE {"PatientName"})
                   \cup (IF institutionName = Undefined THEN {} ELSE {"InstitutionName"})
    IN  [k \in present |->
            CASE k = "PatientID" -> <<"P1">>
              [] k = "PatientName" -> patientName
              [] OTHER -> institutionName]

namedReply(j, patientName, institutionName, now) ==
    /\ suspendedAt(j, {"tags"})
    /\ \E r \in {tagsReceived(run[j], namedTags(patientName, institutionName), now)} :
          resume(j, r)
    /\ UNCHANGED <<archive, patients, labs, studies, cache>>

EnqueueNamed ==
    /\ nextJobId = 1
    /\ add([orthancStudyId |-> "X", requestId |-> nextJobId])

\* The archive's answers to every request but the metadata fetch.
ArchiveRest ==
    \E j \in 1..Len(jobs) : run[j].pc # "tags" /\ archiveReply(j, TRUE, Tick)

\* The metadata fetch: the patient name varies, or the facility name does.
ArchiveNamed ==
    \E j \in 1..Len(jobs) :
        \/ \E patientName \in PersonNames : namedReply(j, patientName, <<"a", "b", "c">>, Tick)
        \/ \E institutionName \in FacilityNames :
              namedReply(j, <<"D", "^", "J">>, institutionName, Tick)

TagsNext ==
    \/ EnqueueNamed \/ Wake \/ ArchiveRest \/ ArchiveNamed \/ PatientStore \/ LabStore
    \/ StudyStore \/ Notify \/ Cache

TagsSpec == Init /\ [][TagsNext]_vars

-----------------------------------------------------------------------------
(* RouteSpec: the /stable-study route receives one notification, whose     *)
(* body is a string or an object with one or two properties.  The study    *)
(* id is a string the route takes apart: one token per character, a word   *)
(* the route only copies being one token.  The pipeline of the job is any  *)
(* run that returns for the study the archive holds and throws otherwise.  *)

\* The text bodies: "X" with spaces around it, and blank strings.
RouteTexts == stringsOver({"X", " "}, MaxChars)

\* Property names and values of the object bodies.
RouteKeys == {<<"X">>, <<" ", "X">>, <<"studyId">>, <<"ID">>, <<"other">>}

RouteValues == {<<>>, <<"Y">>, <<"Y", " ">>}

\* An object body is the sequence of its properties, in the order of
\* Object.keys.
RouteObjects ==
    {<<>>}
    \cup {<<[key |-> k, value |-> v]>> : k \in RouteKeys, v \in RouteValues}
    \cup {<<[key |-> ks[1], value |-> <<"Y">>], [key |-> ks[2], value |-> <<"Z">>]>> :
              ks \in {p \in RouteKeys \X RouteKeys : p[1] # p[2]}}

RouteBodies ==
    {[type |-> "string", text |-> t, properties |-> <<>>] : t \in RouteTexts}
    \cup {[type |-> "object", text |-> <<>>, properties |-> o] : o \in RouteObjects}

\* req.body[name]
property(body, name) ==
    LET hits == SelectSeq(body.properties, LAMBDA e : e.key = name)
    IN  IF hits = <<>> THEN Undefined ELSE hits[1].value

\* Lines 942-958: the study id taken from the body, Undefined for null.
extractedId(body) ==
    IF body.type = "string" THEN trim(body.text)
    ELSE LET keys == [i \in 1..Len(body.properties) |-> body.properties[i].key]
         IN  IF Len(keys) > 0 THEN keys[1]
             ELSE IF truthy(property(body, <<"studyId">>)) THEN property(body, <<"studyId">>)
             ELSE IF truthy(property(body, <<"ID">>)) THEN property(body, <<"ID">>)
             ELSE Undefined

\* !orthancStudyId || orthancStudyId.trim() === ''
rejected(orthancStudyId) == ~truthy(orthancStudyId) \/ trim(orthancStudyId) = <<>>

\* The route handler: 400 for a body without a study id, else the job is
\* added with the trimmed id.
stableStudy(body) ==
    LET orthancStudyId == extractedId(body)
    IN  IF rejected(orthancStudyId)
        THEN UNCHANGED vars
        ELSE add([orthancStudyId |-> trim(orthancStudyId), requestId |-> nextJobId,
                  originalBody |-> body])

PostStableStudy ==
    /\ nextJobId = 1
    /\ \E body \in RouteBodies : stableStudy(body)

RouteReturn ==
    /\ \E id \in processing :
          /\ jobs[id].status = "active"
          /\ jobs[id].data.orthancStudyId = <<"X">>
          /\ settle(id, TRUE, "success")
    /\ UNCHANGED <<archive, patients, labs, studies, cache>>

RouteThrow ==
    /\ \E id \in processing :
          /\ jobs[id].status = "active"
          /\ jobs[id].data.orthancStudyId # <<"X">>
          /\ settle(id, FALSE, "Request failed")
    /\ UNCHANGED <<archive, patients, labs, studies, cache>>

RouteNext == PostStableStudy \/ Wake \/ RouteReturn \/ RouteThrow

RouteSpec == Init /\ [][RouteNext]_vars

-----------------------------------------------------------------------------
(* Properties of the queue.                                                *)

Terminal == {"completed", "failed"}

activeJobs == {i \in 1..Len(jobs) : jobs[i].status = "active"}

waitingJobs == {i \in 1..Len(jobs) : jobs[i].status = "waiting"}

endedJobs == {i \in 1..Len(jobs) : jobs[i].status \in Terminal}

\* The jobs a step admits: active after it, new or waiting before it.
admittedBy(before, after) ==
    {i \in 1..Len(after) : after[i].status = "active"
                           /\ (i > Len(before) \/ before[i].status = "waiting")}

FifoAdmission ==
    /\ [](\A i \in waitingJobs : \A k \in i..Len(jobs) : jobs[k].status = "waiting")
    /\ [][\A i \in admittedBy(jobs, jobs') :
             \A k \in 1..(i - 1) : jobs'[k].status # "waiting"]_vars

\* C6: a job beyond the ceiling was admitted when a slot came free while
\* the job enqueued after it still waits.
FifoAdmissionWitness ==
    \E i \in activeJobs :
        /\ i > concurrency
        /\ i + 1 \in waitingJobs
        /\ endedJobs # {}

\* C7: every add() gives the new job the id nextJobId held, strictly
\* greater than every id given before, and moves nextJobId one up.  The job
\* is stored waiting with progress 0 and no result or error; if the
\* scheduler was not running add() starts it, and the scheduler admits the
\* job before add() returns.  add() returns with the job's pipeline still
\* unfinished, and it changes no other job unless it started the scheduler.
AddContract ==
    [][nextJobId' # nextJobId =>
        LET id  == nextJobId
            job == jobs'[id]
        IN  /\ nextJobId' = nextJobId + 1
            /\ Len(jobs') = Len(jobs) + 1 /\ id = Len(jobs')
            /\ job.id = id
            /\ \A i \in 1..Len(jobs) : jobs[i].id < id /\ jobs'[i].id = jobs[i].id
            /\ job.result = Null /\ job.error = Null
            /\ job.status \notin Terminal
            /\ isProcessing'
            /\ IF isProcessing
               THEN /\ job = newJob(id, job.data)
                    /\ id \notin processing'
                    /\ \A i \in 1..Len(jobs) : jobs'[i] = jobs[i]
               ELSE /\ job = processJobBegin(<<newJob(id, job.data)>>, 1)[1]
                    /\ id \in processing'
                    /\ run'[id].pc # "done"]_vars

\* C7: a job added while the scheduler is running is stored waiting, behind
\* a job that is still active.
AddContractWitness ==
    /\ isProcessing
    /\ \E i \in waitingJobs :
          /\ i > 1
          /\ jobs[i] = newJob(i, jobs[i].data)
          /\ activeJobs # {}

\* C9: a job's status only moves waiting -> active -> completed or failed.
\* Completed and failed are absorbing, an active job never goes back to
\* waiting, a waiting job ends only through active, and no step removes a
\* job: the queue neither re-runs a failed job nor cancels an admitted one.
StatusMoves ==
    [][/\ Len(jobs') >= Len(jobs)
       /\ \A i \in 1..Len(jobs) :
             \/ jobs'[i].status = jobs[i].status
             \/ jobs[i].status = "waiting" /\ jobs'[i].status = "active"
             \/ jobs[i].status = "active" /\ jobs'[i].status \in Terminal
       /\ \A i \in (Len(jobs) + 1)..Len(jobs') :
             jobs'[i].status \in {"waiting", "active"}]_vars

\* C9: the scheduler has looked at the queue again after a job failed and
\* another one completed, and stopped without re-admitting either.
StatusMovesWitness ==
    /\ ~isProcessing
    /\ \E i \in endedJobs : jobs[i].status = "failed" /\ jobs[i].error # Null
    /\ \E i \in endedJobs : jobs[i].status = "completed"

\* Does job i hold a processing slot or wait for one?
pending(i) == i \in waitingJobs \cup activeJobs

\* Has the pipeline of job i raised an exception?
raised(i) == run[i].err # Null

\* C5: a job whose pipeline raises an exception is not completed: it stays
\* active while the catch block runs and then is failed with the message
\* of the exception and without its processing slot.  A failed job blocks
\* nothing: every job that waits or is active is admitted and reaches a
\* terminal status.
FailureIsolation ==
    /\ [](\A i \in 1..Len(jobs) :
             /\ raised(i) => jobs[i].status \in {"active", "failed"}
             /\ jobs[i].status = "failed" =>
                   /\ jobs[i].error # Null /\ jobs[i].error = run[i].err
                   /\ i \notin processing)
    /\ \A i \in 1..MaxJobs : pending(i) ~> (i \in endedJobs)

\* C5: a job has failed with its error recorded, and a job enqueued after
\* it has been admitted and has completed.
FailureIsolationWitness ==
    \E i, k \in endedJobs :
        /\ i < k
        /\ jobs[i].status = "failed" /\ jobs[i].error = "Request failed"
        /\ jobs[k].status = "completed"
        /\ processing = {}

Drained == waitingJobs = {} /\ activeJobs = {}

\* C8: the scheduler loop never stops while a job is waiting or active; it
\* stops only in a drained queue, and once the queue is drained it does
\* stop; an add() made while it is stopped starts it again and the new loop
\* admits the added job.
SchedulerLifecycle ==
    /\ [](~Drained => isProcessing)
    /\ [][isProcessing /\ ~isProcessing' => Drained /\ Drained']_vars
    /\ [][~isProcessing /\ nextJobId' # nextJobId =>
            isProcessing' /\ nextJobId \in admittedBy(jobs, jobs')]_vars
    /\ Drained ~> ~isProcessing

\* C8: the loop has stopped after a burst above the ceiling was worked
\* off, and the queue can still be added to.
SchedulerLifecycleWitness ==
    /\ ~isProcessing
    /\ sleepers = 0
    /\ Cardinality(endedJobs) > concurrency
    /\ Drained
    /\ nextJobId <= MaxBurst

-----------------------------------------------------------------------------
(* Properties of the ingestion pipeline.                                   *)

\* C10: instance discovery is an ordered fallback chain.  A run whose
\* direct instance listing (Method 1) found instances issues no request of
\* the series-by-series lookup (Method 2) nor of the series-id probe
\* (Method 3), and Method 3 issues requests only in a run where Method 1
\* and Method 2 found no instance.
FallbackChain ==
    \A j \in 1..Len(run) :
        /\ run[j].found.m1 > 0 =>
              "method2" \notin run[j].calls /\ "method3" \notin run[j].calls
        /\ "method3" \in run[j].calls =>
              /\ run[j].found.m1 <= 0
              /\ "method2" \in run[j].calls => run[j].found.m2 <= 0

\* C10: a run whose direct listing found instances went on to fetch the
\* metadata of the first one and ended.
FallbackChainWitness ==
    \E j \in 1..Len(run) :
        /\ run[j].found.m1 > 0
        /\ "tags" \in run[j].calls
        /\ run[j].pc = "done"

\* The errors that are fatal to a job: the study summary is unreachable, or
\* it carries no StudyInstanceUID.
FatalErrors == {"Request failed", "StudyInstanceUID not found in stable study"}

\* The runs that have built studyData.
built == {j \in 1..Len(run) : run[j].studyData # NoStudyData}

\* The runs in which the series-by-series lookup (Method 2) ran to its end.
lookedUp == {j \in 1..Len(run) : run[j].found.m2 # -1}

\* The number of instances the series of a run reported to Method 2.
RECURSIVE seriesTotal(_)
seriesTotal(fetched) ==
    IF fetched = <<>> THEN 0
    ELSE Len(archiveSeriesInfo(Head(fetched)).Instances) + seriesTotal(Tail(fetched))

\* Has a series fetch of Method 2 failed in run j?
seriesSkipped(j) == Len(run[j].fetched) < Len(run[j].studyInfo.Series)

\* C11, as claimed: after the series-by-series lookup the instanceCount of
\* the study is the number of instances reported by the series that were
\* fetched, and seriesCount is the number of series of the summary.
SeriesFallbackAsClaimed ==
    \A j \in lookedUp \cap built :
        /\ run[j].studyData.instanceCount = seriesTotal(run[j].fetched)
        /\ run[j].studyData.seriesCount = Len(run[j].studyInfo.Series)

\* C11, amended: a series whose fetch fails is skipped and the job does
\* not fail for it.  The count Method 2 ends with is the number of
\* instances reported by the series that were fetched, and seriesCount is
\* the number of series of the summary, failed ones included.  The
\* instanceCount of the study is that count if it is positive; if it is 0
\* the series-id probe (Method 3) runs and instanceCount is the number of
\* series ids that answered as instances.
SeriesFallback ==
    /\ \A j \in 1..Len(run) :
          "method2" \in run[j].calls => run[j].err = Null /\ jobs[j].status # "failed"
    /\ \A j \in lookedUp : run[j].found.m2 = seriesTotal(run[j].fetched)
    /\ \A j \in lookedUp \cap built :
          /\ run[j].studyData.seriesCount = Len(run[j].studyInfo.Series)
          /\ run[j].studyData.instanceCount =
                IF run[j].found.m2 > 0 THEN seriesTotal(run[j].fetched)
                ELSE run[j].found.m3

\* C11: of the two series of study "X" the first was fetched and the
\* second failed: the job completed with one instance and two series.
SeriesFallbackWitness ==
    \E j \in lookedUp \cap built :
        /\ run[j].fetched = <<"s1">> /\ seriesSkipped(j)
        /\ run[j].studyData.instanceCount = 1
        /\ run[j].studyData.seriesCount = 2
        /\ jobs[j].status = "completed"

\* Is job j for a study whose summary the archive does not give, or gives
\* without a StudyInstanceUID?
noSummary(j) ==
    LET sid == jobs[j].data.orthancStudyId
    IN  \/ ~archiveHasStudy(sid)
        \/ ~truthy(Tag(archiveStudy(sid, archive).MainDicomTags, "StudyInstanceUID"))

\* The runs that a fatal error ended.
fatalRuns == {j \in 1..Len(run) : run[j].err \in FatalErrors}

summarized == {j \in 1..Len(run) : run[j].progress >= 30}

\* C14: once a run has a study summary with a StudyInstanceUID, no failure
\* or timeout of a later archive request (instance listing, series fetch,
\* series-id probe, instance tags, series modality) ends it: no error
\* reaches its catch block, its job is never failed, and when the job has
\* ended it is completed and the Study of that StudyInstanceUID is stored.
DegradedExtraction ==
    \A j \in summarized :
        /\ run[j].err = Null
        /\ jobs[j].status \in {"active", "completed"}
        /\ run[j].pc = "done" =>
              /\ jobs[j].status = "completed"
              /\ \E d \in 1..Len(studies) :
                    /\ studies[d].data.studyInstanceUID =
                          Tag(run[j].studyInfo.MainDicomTags, "StudyInstanceUID")
                    /\ studies[d].data = run[j].studyData

\* C14: every archive request after the summary of study "X" failed; the
\* job completed and stored the study without instances.
DegradedExtractionWitness ==
    \E j \in summarized :
        /\ jobs[j].status = "completed"
        /\ {"method1", "method2", "method3", "modality"} \subseteq run[j].calls
        /\ run[j].found = [m1 |-> -1, m2 |-> 0, m3 |-> 0]
        /\ run[j].fetched = <<>>
        /\ run[j].modalitiesSet = <<<<"UNKNOWN">>>>
        /\ \E d \in 1..Len(studies) :
              /\ studies[d].data.orthancStudyID = "X"
              /\ studies[d].data.instanceCount = 0
              /\ studies[d].data.workflowStatus = "new_metadata_only"

\* Does the archive name no patient for study sid: neither its summary nor
\* the tags of any of its instances have a PatientID or a PatientName?
unidentified(sid) ==
    /\ archiveHasStudy(sid)
    /\ \A v \in {1, 2} :
          LET named(t) == truthy(Tag(t, "PatientID")) \/ truthy(Tag(t, "PatientName"))
              listed == archiveInstances(sid, v)
          IN  /\ ~named(archiveStudy(sid, v).MainDicomTags)
              /\ \A i \in 1..Len(listed) : ~named(archiveTags(listed[i]))

\* The runs for such a study whose patient resolution has returned.
resolvedUnidentified ==
    {j \in 1..Len(run) : /\ unidentified(jobs[j].data.orthancStudyId)
                          /\ run[j].patientRecord # NoPatient}

\* C15, as claimed: when the tags of a study have neither PatientID nor
\* PatientName, patient resolution returns the anonymous sentinel Patient
\* (mrn UNKNOWN_STABLE_STUDY, isAnonymous), the same record every time.
AnonymousSentinel ==
    \A j \in resolvedUnidentified :
        /\ run[j].patientRecord.mrn = <<"UNKNOWN_STABLE_STUDY">>
        /\ run[j].patientRecord.isAnonymous
        /\ \A k \in resolvedUnidentified :
              run[k].patientRecord._id = run[j].patientRecord._id

\* C16, as claimed: whatever the interleaving of the ingestions, the
\* Patient collection holds at most one non-anonymous Patient per mrn.
OnePatientPerMrn ==
    \A p, q \in 1..Len(patients) :
        /\ ~patients[p].isAnonymous /\ ~patients[q].isAnonymous
        /\ patients[p].mrn = patients[q].mrn
        => p = q

\* The fields of a Patient that the name update writes.
NameFields == {"patientNameRaw", "firstName", "lastName"}

\* C17: a step changes a stored Patient only if the stored display name
\* contains "^", and then it writes the name fields only: the new display
\* name is not empty and has no "^", and mrn, patientID, gender and
\* dateOfBirth stay.  A resolution that finds a Patient goes on to that
\* update exactly if the stored display name contains "^" and the parsed
\* one is not empty and has no "^"; otherwise it returns the Patient as
\* stored.
NameUpgrade ==
    /\ [][\A p \in 1..Len(patients) :
             patients'[p] # patients[p] =>
                 /\ includes(patients[p].patientNameRaw, "^")
                 /\ patients'[p].patientNameRaw # <<>>
                 /\ ~includes(patients'[p].patientNameRaw, "^")
                 /\ \A f \in DOMAIN patients[p] \ NameFields :
                       patients'[p][f] = patients[p][f]]_vars
    /\ [][\A j \in 1..Len(run) :
             run[j].pc = "patientFind" /\ run'[j].pc # "patientFind" =>
                 LET stored == findPatient(patients, Tag(run[j].tags, "PatientID"))
                     parsed == run[j].nameInfo.formattedForDisplay
                 IN  stored._id # 0 =>
                       IF /\ includes(stored.patientNameRaw, "^")
                          /\ parsed # <<>> /\ ~includes(parsed, "^")
                       THEN /\ run'[j].pc = "patientUpdate"
                            /\ run'[j].newPatient.patientNameRaw = parsed
                       ELSE /\ run'[j].pc \notin patientPcs
                            /\ run'[j].patientRecord = stored]_vars
    /\ [][\A j \in 1..Len(run) :
             run[j].pc = "patientUpdate" /\ run'[j].pc # "patientUpdate" =>
                 patients'[run[j].newPatient._id].patientNameRaw =
                     run[j].nameInfo.formattedForDisplay]_vars

\* C17: the Patient stored as "D^J" was resolved twice: the first time its
\* name became "J D", the second time it was left as it was.
NameUpgradeWitness ==
    /\ allEnded
    /\ patients[1] = [legacyPatient EXCEPT !.patientNameRaw = <<"J", " ", "D">>,
                                            !.firstName = <<"J">>, !.lastName = <<"D">>]
    /\ \E i, j \in 1..Len(jobs) :
          /\ i < j
          /\ run[i].patientRecord = patients[1] /\ run[j].patientRecord = patients[1]
          /\ jobs[j].status = "completed"

\* The runs whose lab resolution has returned.
labResolved == {j \in 1..Len(run) : run[j].labRecord # NoLab}

\* The runs whose tags refer, by ObjectId, to a stored Lab that is inactive.
refersToInactive ==
    {j \in 1..Len(run) :
        /\ isValidObjectId(run[j].customLabId)
        /\ objectIdOf(run[j].customLabId) \in 1..Len(labs)
        /\ ~labs[objectIdOf(run[j].customLabId)].isActive}

defaultLabs == {l \in 1..Len(labs) : labs[l].identifier = DEFAULT_LAB.identifier}

\* The runs whose lab reference, if any, matches no stored Lab and whose
\* tags have no usable facility field, and whose lab resolution returned.
defaultBound ==
    {j \in labResolved :
        /\ SelectSeq(possibleLabSources(run[j].tags), labSourceUsable) = <<>>
        /\ \A l \in 1..Len(labs) :
              /\ isValidObjectId(run[j].customLabId) => l # objectIdOf(run[j].customLabId)
              /\ truthy(run[j].customLabId) /\ ~isValidObjectId(run[j].customLabId) =>
                    labs[l].identifier # toUpperCase(run[j].customLabId)}

firstActive == findLab(SelectSeq(labs, LAMBDA d : d.isActive))

EmergencyPcs == {"labEmergencyFind", "labEmergencySave"}

CaughtPcs == {"labHeuristicFind", "labHeuristicSave", "labDefaultFind", "labDefaultSave"}

PropagatedErrors ==
    {"patient store error", "lab store error", "study store error",
     "E11000 duplicate key error", "redis error"}

\* C13, as claimed: a job ends failed only for a fatal-to-job error.
OnlyFatalFails ==
    \A j \in 1..Len(jobs) :
        jobs[j].status = "failed" => jobs[j].error \in FatalErrors

\* C13, amended: a job ends failed exactly when an error reached the catch
\* block of its pipeline, and the errors that reach it are the fatal ones
\* and those raised by the Patient store, by the Study lookup or save, by
\* the emergency tier of lab resolution and by the write of the result
\* cache.  A failed notification and an error of the Lab store in the
\* other tiers are absorbed: they are never the error of a job, and a job
\* completes only if no error reached the catch block.
FailurePropagation ==
    \A j \in 1..Len(jobs) :
        /\ jobs[j].status = "failed" =>
              /\ jobs[j].error \in FatalErrors \cup PropagatedErrors
              /\ run[j].err # Null
        /\ run[j].err # Null =>
              /\ run[j].err \in FatalErrors \cup PropagatedErrors
              /\ jobs[j].status \in {"active", "failed"}
        /\ jobs[j].status = "completed" => run[j].err = Null /\ run[j].progress = 100

\* C13: a job completed although its notification failed and the Lab
\* store raised an error in the reference tier.
FailurePropagationWitness ==
    \E j \in 1..Len(jobs) :
        /\ jobs[j].status = "completed"
        /\ run[j].notifyFailed
        /\ run[j].labErrors # {}
        /\ cache[jobs[j].data.requestId] = [success |-> TRUE]

\* The jobs that ingested study sid, and those that completed.
ingestionsOf(sid) ==
    {j \in 1..Len(jobs) : jobs[j].data.orthancStudyId = sid /\ archiveHasStudy(sid)
                          /\ truthy(Tag(archiveStudy(sid, archive).MainDicomTags,
                                        "StudyInstanceUID"))}

completedFor(sid) == {j \in ingestionsOf(sid) : jobs[j].status = "completed"}

\* The stored studies that came from study sid of the archive.
docsFor(sid) == {d \in 1..Len(studies) : studies[d].data.orthancStudyID = sid}

\* The entries of a history that ingestions wrote.
ingestionEntries(statusHistory) ==
    SelectSeq(statusHistory, LAMBDA e : e.note \in {"created", "updated"})

lastOf(S) == CHOOSE j \in S : \A k \in S : k <= j

Denormalized ==
    {"seriesCount", "instanceCount", "modalitiesInStudy", "patient", "patientId",
     "patientName", "sourceLab", "institutionName", "processingMethod"}

\* C2: after a study was ingested N times one after another there is
\* exactly one stored study for it, the ingestions have written exactly N
\* entries of its statusHistory (the first "created", the others "updated",
\* in the order of the ingestions), and its counts, modality set, patient
\* and lab references are those the last ingestion computed.
SequentialIdempotence ==
    allEnded =>
        \A sid \in StudyIds :
            LET done == completedFor(sid)
            IN  done # {} =>
                  /\ Cardinality(docsFor(sid)) = 1
                  /\ \A d \in docsFor(sid) :
                        LET written == ingestionEntries(studies[d].statusHistory)
                            last == run[lastOf(done)]
                        IN  /\ Len(written) = Cardinality(done)
                            /\ written[1].note = "created"
                            /\ \A n \in 2..Len(written) : written[n].note = "updated"
                            /\ written[Len(written)].instanceCount =
                                  last.studyData.instanceCount
                            /\ \A f \in Denormalized :
                                  studies[d].data[f] = last.studyData[f]

\* C2: study "X" was ingested twice, the second time after the archive had
\* received its "US" series: one study, two entries, both modalities.
SequentialIdempotenceWitness ==
    /\ allEnded
    /\ Cardinality(completedFor("X")) = 2
    /\ \E d \in docsFor("X") :
          /\ Len(studies[d].statusHistory) = 2
          /\ studies[d].data.modalitiesInStudy = <<<<"CT">>, <<"US">>>>
          /\ studies[d].data.instanceCount = 2

\* The ingestions of study sid whose save() of the study has succeeded.
savedFor(sid) == {j \in ingestionsOf(sid) : run[j].progress >= 90}

\* The ingestions of study sid that lost the race of the first creation.
rejectedFor(sid) ==
    {j \in ingestionsOf(sid) : run[j].err = "E11000 duplicate key error"}

\* C3, as claimed: when the jobs for a study have ended, however their
\* findOne and save steps interleaved, there is exactly one stored study
\* and its statusHistory has one entry per ingestion.
ConvergenceAsClaimed ==
    allEnded =>
        \A sid \in NotifiedIds :
            ingestionsOf(sid) # {} =>
                /\ Cardinality(docsFor(sid)) = 1
                /\ \A d \in docsFor(sid) :
                      Len(studies[d].statusHistory) = Cardinality(ingestionsOf(sid))

\* C3, amended: at every moment there is at most one stored study for a
\* study identifier, and its statusHistory has exactly one entry per
\* ingestion whose save() succeeded, none replaced.  An ingestion that
\* found no study and saves after a concurrent ingestion has created it is
\* rejected by the unique index: its job fails with the duplicate-key
\* error and its entry is never written.  Every ended ingestion either
\* saved or was rejected.
Convergence ==
    \A sid \in NotifiedIds :
        /\ Cardinality(docsFor(sid)) <= 1
        /\ savedFor(sid) # {} => docsFor(sid) # {}
        /\ \A d \in docsFor(sid) :
              /\ Len(studies[d].statusHistory) = Cardinality(savedFor(sid))
              /\ studies[d].statusHistory[1].note = "created"
        /\ \A j \in rejectedFor(sid) :
              /\ run[j].dicomStudyDoc = 0
              /\ j \notin savedFor(sid)
              /\ docsFor(sid) # {}
              /\ jobs[j].status \in Terminal => jobs[j].status = "failed"
        /\ \A j \in ingestionsOf(sid) \cap endedJobs :
              /\ jobs[j].status = "completed" <=> j \in savedFor(sid)
              /\ jobs[j].status = "failed" <=> j \in rejectedFor(sid)

\* C3: two jobs ingested study "X" concurrently; both found no study, the
\* first save created it and the second was rejected.
ConvergenceWitness ==
    /\ allEnded
    /\ \E j, k \in ingestionsOf("X") :
          /\ j \in savedFor("X") /\ k \in rejectedFor("X")
          /\ run[j].dicomStudyDoc = 0
    /\ \E d \in docsFor("X") : Len(studies[d].statusHistory) = 1

\* C4, as claimed: a workflowStatus that a downstream component advanced
\* to "report_finalized" is left there by every step of an ingestion.
NoStatusDowngrade ==
    [][\A d \in 1..Len(studies) :
          studies[d].data.workflowStatus = "report_finalized" =>
              studies'[d].data.workflowStatus = "report_finalized"]_vars

-----------------------------------------------------------------------------
(* Properties of the conversions.                                          *)

\* The facility name the heuristic tier of a run works on: the first usable
\* of the possible lab sources of its tag set.
facilitySource(j) == SelectSeq(possibleLabSources(run[j].tags), labSourceUsable)[1]

\* The runs that are about to create the Lab of their facility.
creatingFacilityLab ==
    {j \in 1..Len(run) : run[j].pc = "labHeuristicSave" /\ run[j].labErrors = {}}

\* A string with each run of spaces replaced by one underscore, and nothing
\* else changed.
spacesCollapsed(s) ==
    LET keep == {i \in 1..Len(s) : s[i] # " " \/ i = 1 \/ s[i - 1] # " "}
        nth(k) == CHOOSE i \in keep : Cardinality({x \in keep : x <= i}) = k
    IN  [k \in 1..Cardinality(keep) |-> IF s[nth(k)] = " " THEN "_" ELSE s[nth(k)]]

\* The trimmed string, in upper case, with each run of spaces and
\* underscores replaced by one underscore.
separatorsCollapsed(s) ==
    LET t == trim(s)
        sep(i) == t[i] \in {" ", "_"}
        keep == {i \in 1..Len(t) : ~sep(i) \/ i = 1 \/ ~sep(i - 1)}
        nth(k) == CHOOSE i \in keep : Cardinality({x \in keep : x <= i}) = k
    IN  [k \in 1..Cardinality(keep) |-> IF sep(nth(k)) THEN "_" ELSE upperChar(t[nth(k)])]

\* C21, as claimed: the identifier of the Lab a run creates for a facility
\* name is that name in upper case with each run of whitespace replaced by
\* one underscore, and nothing else changed.
LabIdentifierAsClaimed ==
    \A j \in creatingFacilityLab :
        run[j].newLab.identifier = spacesCollapsed(toUpperCase(facilitySource(j)))

\* C21, amended: the identifier is the facility name without its leading
\* and trailing whitespace, in upper case, with each run of whitespace and
\* underscores replaced by one underscore; it is the upper-case form of the
\* Lab's name with each space replaced by an underscore, the name having no
\* two spaces in a row.
LabIdentifier ==
    \A j \in creatingFacilityLab :
        LET lab == run[j].newLab
        IN  /\ lab.identifier = separatorsCollapsed(facilitySource(j))
            /\ lab.identifier = spacesCollapsed(toUpperCase(lab.name))
            /\ Len(lab.identifier) = Len(lab.name)
            /\ lab.name = run[j].labName

\* C21: the Lab of a facility named "a _a" is about to be created with the
\* identifier "A_A".
LabIdentifierWitness ==
    \E j \in creatingFacilityLab :
        /\ facilitySource(j) = <<"a", " ", "_", "a">>
        /\ run[j].newLab.identifier = <<"A", "_", "A">>

\* The runs that have parsed the patient name of their tag set.
named == {j \in 1..Len(run) : run[j].progress >= 60}

\* The i-th component of a person name: what stands between its (i-1)-th
\* and its i-th caret, without leading and trailing spaces.
component(s, i) ==
    LET carets == {p \in 1..Len(s) : s[p] = "^"}
        caret(k) == CHOOSE p \in carets : Cardinality({x \in carets : x <= p}) = k
        from == IF i = 1 THEN 1 ELSE caret(i - 1) + 1
        to == IF i <= Cardinality(carets) THEN caret(i) - 1 ELSE Len(s)
    IN  IF i - 1 > Cardinality(carets) THEN <<>> ELSE trim(SubSeq(s, from, to))

\* 'prefix given middle family suffix', empty components omitted.
RECURSIVE spaced(_)
spaced(words) ==
    IF words = <<>> THEN <<>>
    ELSE IF Head(words) = <<>> THEN spaced(Tail(words))
    ELSE IF spaced(Tail(words)) = <<>> THEN Head(words)
    ELSE Head(words) \o <<" ">> \o spaced(Tail(words))

displayOrder(s) ==
    spaced(<<component(s, 4), component(s, 2), component(s, 3),
             component(s, 1), component(s, 5)>>)

Placeholders == {<<>>, <<"^">>, <<"^", "^", "^">>}

intendedId(body) ==
    IF body.type = "string" THEN body.text
    ELSE IF truthy(property(body, <<"studyId">>)) THEN property(body, <<"studyId">>)
    ELSE IF truthy(property(body, <<"ID">>)) THEN property(body, <<"ID">>)
    ELSE body.properties[1].key

\* The bodies the claim is about.
claimedShape(body) ==
    \/ body.type = "string"
    \/ Len(body.properties) = 1
    \/ truthy(property(body, <<"studyId">>))
    \/ truthy(property(body, <<"ID">>))

\* C22: the study id of an enqueued job is the trimmed, non-empty id its
\* notification body was meant to carry: the string itself, the value of the
\* studyId or ID field, or the key of a single-key object.
EndpointNormalization ==
    \A j \in 1..Len(jobs) :
        LET body == jobs[j].data.originalBody
        IN  claimedShape(body) =>
                /\ jobs[j].data.orthancStudyId = trim(intendedId(body))
                /\ jobs[j].data.orthancStudyId # <<>>

-----------------------------------------------------------------------------
(* Properties of the result cache and of the order of the stages.          *)

saved == {j \in 1..Len(run) : run[j].progress >= 90}

storedStudy(j) ==
    studies[CHOOSE d \in 1..Len(studies) :
                studies[d].data.studyInstanceUID = run[j].studyData.studyInstanceUID]

\* The members of a Set kept in insertion order.
members(set) == {set[i] : i \in 1..Len(set)}

\* The Modality tags of the series whose fetch in the modality loop of a
\* run got an answer.
seriesModalities(j) ==
    {m \in {Tag(archiveSeriesInfo(run[j].probed[i]).MainDicomTags, "Modality") :
                i \in 1..Len(run[j].probed)} : truthy(m)}

\* The union of the Modality the archive reported for the study or its
\* first instance, if any, and of the series' modalities.
reportedModalities(j) ==
    (IF truthy(run[j].reported) THEN {run[j].reported} ELSE {}) \cup seriesModalities(j)

\* Were the placeholder tags made (no patient name and no patient id)?
placeholderTags(j) == Tag(run[j].tags, "PatientID")[1] = "UNKNOWN_"

\* C25, as claimed: the persisted modality set is the union of the reported
\* top-level Modality and the fetched series' modalities, or exactly
\* {'UNKNOWN'} when that union is empty.
ModalityUnionAsClaimed ==
    \A j \in saved :
        members(storedStudy(j).data.modalitiesInStudy) =
            IF reportedModalities(j) = {} THEN {<<"UNKNOWN">>} ELSE reportedModalities(j)

\* C25, amended: the persisted modality set holds the reported modalities;
\* besides them it holds at most 'UNKNOWN', and it holds 'UNKNOWN' exactly
\* when no series modality was fetched and no top-level Modality was
\* reported, or when the placeholder tags were made for a study without a
\* reported top-level Modality.  It is never empty and has no duplicates.
ModalityUnion ==
    \A j \in saved :
        LET set == storedStudy(j).data.modalitiesInStudy
            sentinel == \/ reportedModalities(j) = {}
                        \/ placeholderTags(j) /\ ~truthy(run[j].reported)
        IN  /\ members(set) = reportedModalities(j)
                               \cup (IF sentinel THEN {<<"UNKNOWN">>} ELSE {})
            /\ Cardinality(members(set)) = Len(set)
            /\ set # <<>>
            /\ set = run[j].modalitiesSet

\* C25: the metadata fetch failed, the placeholder tags were made, and the
\* series reported CT: the persisted set is UNKNOWN, CT.
ModalityUnionWitness ==
    \E j \in saved :
        /\ placeholderTags(j)
        /\ seriesModalities(j) = {<<"CT">>}
        /\ storedStudy(j).data.modalitiesInStudy = <<<<"UNKNOWN">>, <<"CT">>>>

\* The discovery method that produced the instances of a run: the first
\* of the three that logged a positive count.
producer(j) ==
    IF run[j].found.m1 > 0 THEN "method1"
    ELSE IF run[j].found.m2 > 0 THEN "method2"
    ELSE IF run[j].found.m3 > 0 THEN "method3"
    ELSE "none"

\* C27: the method recorded with the persisted Study names the discovery
\* step that produced its instances: 'series_lookup' is recorded only for
\* instances from the series lookup (Method 2), studies whose instances
\* came from different methods are recorded differently, and
\* 'study_metadata_only' is recorded iff no instance was found.
MethodRecorded ==
    \A j \in saved :
        LET data == storedStudy(j).data
        IN  /\ data.apiMethodUsed = "study_metadata_only" <=> data.instanceCount = 0
            /\ data.apiMethodUsed = "series_lookup" => producer(j) = "method2"

\* The awaits of the extractor, and the Study a run has saved.
ExtractorPcs == {"summary", "method1", "method2", "method3", "tags"}

studySaved(j) ==
    \E d \in 1..Len(studies) :
        /\ studies[d].data.studyInstanceUID = run[j].studyData.studyInstanceUID
        /\ studies[d].data.orthancStudyID = jobs[j].data.orthancStudyId

\* C26, as claimed: no archive request is pending once patient and lab
\* resolution has started.
NoArchiveAfterResolution ==
    \A j \in 1..Len(run) : run[j].pc \in archivePcs => run[j].progress < 60

\* C26, amended: the extractor's requests come before the resolution; the
\* Patient is resolved before the Lab; the only archive requests after the
\* resolution are the series fetches of the modality aggregation, which
\* come before the Study lookup; the Study is looked up and saved only
\* after both resolutions returned; the notification and the write of the
\* success outcome come only after the Study was saved.
StageOrder ==
    \A j \in 1..Len(run) :
        LET r == run[j]
            resolved == r.patientRecord._id # 0 /\ r.labRecord._id # 0
        IN  /\ r.pc \in ExtractorPcs =>
                   r.patientRecord = NoPatient /\ r.labRecord = NoLab /\ r.progress < 60
            /\ r.pc \in patientPcs => r.labRecord = NoLab /\ r.studyData = NoStudyData
            /\ r.pc \in labFindPcs \cup labSavePcs =>
                   r.patientRecord._id # 0 /\ r.studyData = NoStudyData
            /\ r.pc = "modality" => resolved /\ r.studyData = NoStudyData
            /\ r.pc \in studyPcs => resolved /\ ~studySaved(j)
            /\ r.pc \in {"notify", "cacheOk"} => resolved /\ studySaved(j)
            /\ /\ jobs[j].data.requestId \in DOMAIN cache
               /\ cache[jobs[j].data.requestId].success
               => studySaved(j) /\ r.progress = 100

\* C26: a run with Patient and Lab resolved waits for a series fetch of the
\* modality aggregation.
StageOrderWitness ==
    \E j \in 1..Len(run) :
        /\ run[j].pc = "modality"
        /\ run[j].patientRecord._id # 0
        /\ run[j].labRecord._id # 0
        /\ run[j].calls = {"summary", "method1", "tags", "modality"}

-----------------------------------------------------------------------------
(* Properties of the scheduler.                                            *)

\* C28: at every yield point at most one startProcessing loop exists, the
\* flag isProcessing is set exactly while one exists, and a waiting job
\* always has one.  add() returns with the loop running, and the loop ends
\* in the very step that found the queue without waiting and active jobs,
\* so no add() falls between that test and the reset of the flag.
SingleScheduler ==
    /\ [](/\ sleepers <= 1
          /\ isProcessing <=> sleepers = 1
          /\ waitingJobs # {} => isProcessing /\ sleepers = 1)
    /\ [][nextJobId' # nextJobId => isProcessing' /\ sleepers' = 1]_vars
    /\ [][isProcessing /\ ~isProcessing' =>
            /\ Len(jobs') = Len(jobs)
            /\ \A i \in 1..Len(jobs') : jobs'[i].status \in Terminal
            /\ sleepers' = 0]_vars

\* C28: the loop had stopped in a worked-off queue and an add() started it
\* again; the added job is active and the loop sleeps.
SingleSchedulerWitness ==
    /\ isProcessing /\ sleepers = 1
    /\ Len(jobs) > 1
    /\ Len(jobs) \in activeJobs
    /\ \A i \in 1..(Len(jobs) - 1) : i \in endedJobs

\* C29: under fair scheduling of the sleep and of the pipelines, every
\* enqueued job reaches completed or failed, in a burst above the ceiling
\* and with a failing job among them: again and again all the jobs
\* enqueued so far have ended, and an ended job keeps its status.  In the
\* end the processing set is empty and the scheduler has stopped for good.
EveryJobEnds ==
    /\ []<>(\A i \in 1..Len(jobs) : i \in endedJobs)
    /\ [][\A i \in endedJobs : jobs'[i].status = jobs[i].status]_vars
    /\ <>[](processing = {} /\ ~isProcessing /\ sleepers = 0)

\* C29: a full burst has ended, one job of it failed, the others
\* completed, and the scheduler has stopped.
EveryJobEndsWitness ==
    /\ Len(jobs) = MaxBurst
    /\ \A i \in 1..Len(jobs) : i \in endedJobs
    /\ jobs[BadJobId].status = "failed"
    /\ \A i \in 1..Len(jobs) : i # BadJobId => jobs[i].status = "completed"
    /\ processing = {} /\ ~isProcessing

\* C30: the pipeline of a job is started at most once, in the step that
\* admits the job; a job that is not waiting is never admitted.  At every
\* yield point the processing set holds exactly the ids of the active
\* jobs: a step puts an id into the set exactly when it makes the job
\* active, and takes it out exactly when it makes the job terminal.
StartedOnce ==
    /\ [](processing = activeJobs /\ \A i \in waitingJobs : run[i].pc = "idle")
    /\ [][\A i \in 1..Len(jobs') :
            LET was == IF i <= Len(jobs) THEN jobs[i].status ELSE "waiting"
                at == IF i <= Len(run) THEN run[i].pc ELSE "idle"
            IN  /\ i \in admittedBy(jobs, jobs') <=> at = "idle" /\ run'[i].pc # "idle"
                /\ i \in admittedBy(jobs, jobs') <=> i \in processing' \ processing
                /\ was # "waiting" => i \notin admittedBy(jobs, jobs')
                /\ at # "idle" => run'[i].pc # "idle" /\ (run'[i].pc = "summary" => at = "summary")
                /\ i \in processing \ processing' <=>
                       was = "active" /\ jobs'[i].status \in Terminal]_vars

\* C30: with every slot taken, a job ended and the job that had waited
\* longest took its slot, while another one still waits.
StartedOnceWitness ==
    /\ Cardinality(processing) = concurrency
    /\ concurrency + 1 \in processing
    /\ concurrency + 2 \in waitingJobs
    /\ Cardinality(endedJobs) = 1

====
